---- MODULE Spec2Model ----
(***************************************************************************)
(* Per-vehicle ETA tracking of gofasta0/server3.                           *)
(*                                                                         *)
(* src/index.js holds two servers: lines 1-392 (computeBusETA,             *)
(* fetchAndBroadcast, etaCache) and lines 973-1532                         *)
(* (mapDeviceToSocketPayload, fetchLiveDevices, broadcastLiveDevices,      *)
(* googleApiCache).  A process runs one of them; `variant` says which.     *)
(*                                                                         *)
(* Units: time in milliseconds (Date.now()), ETA in seconds, coordinates   *)
(* in 1e-5 degrees.  Every fix lies on the destination's meridian, where   *)
(* the haversine distance is R * dLat: 1.112 m per 1e-5 degree.  Distances *)
(* are carried in millimetres so that no threshold comparison is rounded.  *)
(***************************************************************************)
EXTENDS Integers, Sequences, FiniteSets, TLC

VARIABLES
  variant,         \* which server of src/index.js the process runs
  now,             \* Date.now()
  etaCache,        \* index.js:60    busId -> {etaSeconds, route, lastEtaUpdate, previousEta}
  googleApiCache,  \* index.js:1036  cacheKey -> {eta, lastEta, etaLastUpdate, route, routeLastUpdate, lastPosition}
  latestDevices,   \* index.js:1030  the device list of the last successful fetch
  MOTO_STOP_COUNT, \* index.js:1079  process.env.MOTO_STOP_COUNT
  feed,            \* what the device source reports in this behaviour
  lastFetchedAt,   \* index.js:1031  when the last successful fetch was made (0: never)
  lastFetchError,  \* index.js:1032  whether the last fetch failed
  cycles,          \* the cycles whose Promise.all has not resolved yet
  cycleCount,      \* cycles started so far
  lastRun,         \* per bus: the last completed computeBusETA / mapDeviceToSocketPayload call
  refreshedAt,     \* per bus: the latest timestamp a successful refresh has stored (0: none)
  arrivedAt,       \* per bus: when its latest fix within the arrival radius was processed (0: none)
  emitted,         \* the events of the last emission (io.emit / socket.emit)
  notificationSubscriptions,  \* index.js:1033  busId -> [{pushToken, notificationTime, notified}]
  busState,        \* smoothing.js:271  a BusSmoothingState instance
  updateLog,       \* the update() calls made on busState: samples pushed, last return value
  request,         \* utils/googleMaps.js: the arguments and provider response of a call
  reply,           \* utils/googleMaps.js: what the call returned
  dummyBus,        \* utils/dummyGPS.js:18  global.dummyBus {lat, lng, lastUpdate}
  prediction       \* what predictPosition returned, if called since the last update()

vars == <<variant, now, etaCache, googleApiCache, latestDevices, MOTO_STOP_COUNT, feed,
          lastFetchedAt, lastFetchError, cycles, cycleCount, lastRun, refreshedAt,
          arrivedAt, emitted, notificationSubscriptions, busState, updateLog, request,
          reply, dummyBus, prediction>>

\* The state of the servers of index.js, and of the modules under utils/
serverVars == <<variant, etaCache, googleApiCache, latestDevices, MOTO_STOP_COUNT,
                lastFetchedAt, lastFetchError, cycles, cycleCount, lastRun, refreshedAt,
                arrivedAt, emitted, notificationSubscriptions>>
utilVars == <<busState, updateLog, request, reply, dummyBus, prediction>>

-----------------------------------------------------------------------------
(* Bounds of the model *)

MaxCycles == 3      \* cycles (timer ticks and client connections) per behaviour
MaxInflight == 2    \* cycles that may be awaiting provider responses at once
BootTime == 1000    \* Date.now() when the process starts (any positive time)
MaxUpdates == 7     \* update() calls on one BusSmoothingState per behaviour
MaxPolylineLength == 3  \* characters of an encoded polyline
MaxDummyCycles == 90    \* timer ticks of a behaviour in dummy-GPS mode

-----------------------------------------------------------------------------
(* Program constants *)

POLL_INTERVAL_MS == 10000
ETA_REFRESH_MS == 30000
ARRIVAL_DISTANCE_M == 50
STALE_DEVICE_MS == 10 * 60 * 1000
DESTINATION == [lat |-> -196835, lng |-> 3008909]

GOOGLE_ETA_CACHE_MS == 60 * 1000
GOOGLE_ROUTE_CACHE_MS == 6 * 60 * 60 * 1000
MIN_DISTANCE_FOR_ETA_REFRESH == 100
DWELL_TIME_PER_STOP == 30
STALE_DATA_LIMIT_MS == 10 * 60 * 1000
DEFAULT_DESTINATION == [lat |-> -196835, lon |-> 3008909]

VariantA == "computeBusETA"
VariantB == "mapDeviceToSocketPayload"

Bus == {"b1", "b2"}
BusOrder == <<"b1", "b2">>

-----------------------------------------------------------------------------
(* JavaScript values: a number, NaN, null, undefined or a non-numeric      *)
(* string, tagged so that values of different types can be compared.       *)

Num(n) == [t |-> "number", v |-> n]
NaN == [t |-> "NaN", v |-> 0]
Null == [t |-> "null", v |-> 0]
Undefined == [t |-> "undefined", v |-> 0]
Text == [t |-> "string", v |-> 0]

Arr(s) == [t |-> "array", v |-> s]
NullRoute == [t |-> "null", v |-> <<>>]
NoRoute == [t |-> "undefined", v |-> <<>>]

\* Number(x): null converts to 0, undefined and non-numeric text to NaN
Number(x) ==
  CASE x.t = "number" -> x
    [] x.t = "null" -> Num(0)
    [] OTHER -> NaN

IsNumber(x) == x.t = "number"
\* !x for a value that is a number, NaN, null or undefined
Falsy(x) == x.t # "number" \/ x.v = 0
\* x || 0
OrZero(x) == IF Falsy(x) THEN 0 ELSE x.v
\* Math.round(s / 60) for s >= 0
RoundMinutes(s) == (s + 30) \div 60
Abs(x) == IF x < 0 THEN -x ELSE x
Max(a, b) == IF a > b THEN a ELSE b

-----------------------------------------------------------------------------
(* Geodesy *)

\* index.js:70-80 on one meridian (a.lng = b.lng): R * dLat, in millimetres
distanceMeters(a, b) == Abs(b.lat - a.lat) * 1112

\* index.js:1065-1076, same formula
getDistanceInMeters(lat1, lon1, lat2, lon2) == Abs(lat2 - lat1) * 1112

\* index.js:118-122
applyCountdown(etaSeconds, lastUpdate, t) ==
  IF Falsy(etaSeconds) \/ lastUpdate = 0 THEN 0
  ELSE Max(0, etaSeconds.v - (t - lastUpdate) \div 1000)

-----------------------------------------------------------------------------
(* Inputs: raw fixes and provider responses *)

\* A device record of the feed: {device_id, last_lat, last_lon, last_speed, last_update}
Device(id, lat, lon, speed, update) ==
  [device_id |-> id, last_lat |-> lat, last_lon |-> lon, last_speed |-> speed,
   last_update |-> update]

\* Fixes {lat, lon, speed km/h, age ms}.  -194410 is 2.7 km from the
\* destination, -194383 is 30 m further on, -194590 is 200 m back, -196800 is
\* 39 m from the destination.
Moving == [lat |-> Num(-194410), lon |-> Num(3008909), speed |-> 40, age |-> 0]
Stopped == [lat |-> Num(-194383), lon |-> Num(3008909), speed |-> 0, age |-> 0]
MovedOn == [lat |-> Num(-194590), lon |-> Num(3008909), speed |-> 40, age |-> 0]
AtDestination == [lat |-> Num(-196800), lon |-> Num(3008909), speed |-> 0, age |-> 0]
Stale == [lat |-> Num(-194410), lon |-> Num(3008909), speed |-> 40, age |-> 11 * 60 * 1000]
NullLat == [lat |-> Null, lon |-> Num(3008909), speed |-> 40, age |-> 0]
ZeroLat == [lat |-> Num(0), lon |-> Num(3008909), speed |-> 40, age |-> 11 * 60 * 1000]
TextLon == [lat |-> Num(-194410), lon |-> Text, speed |-> 0, age |-> 0]
NoCoordinates == [lat |-> Undefined, lon |-> Undefined, speed |-> 0, age |-> 0]

\* The feeds a behaviour may have: what the device source reports over the
\* behaviour's cycles
Feeds == {"tracking", "classified", "malformed", "pair", "boundary", "longrun"}

\* The device lists a fetch at time t may return
Fleets(t) ==
  CASE feed = "tracking" ->
         { <<Device("b1", f.lat, f.lon, f.speed, t - f.age)>> :
           f \in {Moving, Stopped, MovedOn} }
    [] feed = "classified" ->
         { <<Device("b1", f.lat, f.lon, f.speed, t - f.age)>> :
           f \in {Moving, AtDestination, Stale} }
    [] feed = "malformed" ->
         { <<Device("b1", f.lat, f.lon, f.speed, t - f.age)>> :
           f \in {NullLat, ZeroLat, TextLon} }
    [] feed = "boundary" ->
         { <<Device("b1", f.lat, f.lon, f.speed, t - f.age)>> : f \in {Moving, Stopped} }
    [] feed = "longrun" ->
         { <<Device("b1", Moving.lat, Moving.lon, Moving.speed, t)>> }
    [] feed = "alerts" ->
         { <<Device("b1", f.lat, f.lon, f.speed, t - f.age)>> : f \in {Moving, Stale} }
    [] feed = "pair" ->
         { <<Device("b1", Moving.lat, Moving.lon, Moving.speed, t),
             Device("b2", f.lat, f.lon, f.speed, t - f.age)>> :
           f \in {Stale, NoCoordinates} }

\* Time between two cycle starts: the timer period, or several periods when
\* the fetches in between failed.  Server A refreshes after 30 s; server B
\* after more than 60 s, a stopped vehicle after 120 s (two steps of 70 s).
\* The "boundary" feed is polled exactly one refresh interval apart; the
\* "longrun" feed reaches the age at which the cached path expires.
Elapse ==
  IF feed = "longrun" THEN {POLL_INTERVAL_MS, GOOGLE_ROUTE_CACHE_MS - 5000}
  ELSE IF variant = VariantA
    THEN IF feed = "boundary" THEN {3 * POLL_INTERVAL_MS}
         ELSE {POLL_INTERVAL_MS, 3 * POLL_INTERVAL_MS}
    ELSE IF feed = "boundary" THEN {6 * POLL_INTERVAL_MS}
         ELSE {POLL_INTERVAL_MS, 7 * POLL_INTERVAL_MS}

\* index.js:128-162  getGoogleRouteData resolves to null on any failure,
\* else to {durationSeconds, routePoints}
GoogleFailure == [ok |-> FALSE, durationSeconds |-> 0, routePoints |-> <<>>]
\* (the dummy-GPS feed is modelled with a provider that answers every request
\* with the same route)
GoogleRouteData ==
  IF feed = "dummy"
    THEN { [ok |-> TRUE, durationSeconds |-> 300, routePoints |-> <<1, 3, 2>>] }
    ELSE { GoogleFailure,
           [ok |-> TRUE, durationSeconds |-> 120, routePoints |-> <<1, 2>>],
           [ok |-> TRUE, durationSeconds |-> 300, routePoints |-> <<1, 3, 2>>] }

-----------------------------------------------------------------------------
(* Server A: computeBusETA, index.js:168-305 *)

NoPayload == [null |-> TRUE]
EmptyEntryA ==
  [etaSeconds |-> Undefined, route |-> NoRoute, lastEtaUpdate |-> 0, previousEta |-> Undefined]
NoLocals == [none |-> TRUE]

\* index.js:179
InvalidCoordinates(lat, lng) == Falsy(lat) \/ Falsy(lng)

\* index.js:187
IsOffline(t, lastUpdate) == t - lastUpdate > STALE_DEVICE_MS

\* index.js:208
HasArrived(position) ==
  distanceMeters(position, DESTINATION) <= ARRIVAL_DISTANCE_M * 1000

\* index.js:235
shouldRefresh(cache, t) ==
  cache.lastEtaUpdate = 0 \/ t - cache.lastEtaUpdate >= ETA_REFRESH_MS

\* index.js:273-284
StatusA(etaSeconds, previousEta) ==
  IF ~Falsy(previousEta) /\ etaSeconds - previousEta.v >= 90 THEN "traffic"
  ELSE IF IsNumber(previousEta) /\ etaSeconds < previousEta.v - 60 THEN "faster"
  ELSE "normal"

PayloadA(device, position, eta, etaSeconds, status, route) ==
  [busId |-> device.device_id, position |-> position, eta |-> eta,
   etaSeconds |-> Num(etaSeconds), status |-> status, speed |-> device.last_speed,
   lastUpdate |-> device.last_update, route |-> Arr(route)]

\* index.js:273-304
TrackingPayloadA(device, position, cache, etaSeconds, route) ==
  PayloadA(device, position, Num(RoundMinutes(etaSeconds)), etaSeconds,
           StatusA(etaSeconds, cache.previousEta), route)

\* An arrival write that zeroes the ETA and keeps the cached path
ArrivalEntryKeepingRoute(cache, t) ==
  [cache EXCEPT !.etaSeconds = Num(0), !.lastEtaUpdate = t]

\* index.js:212-217
ArrivalEntry(cache, t) ==
  [cache EXCEPT !.etaSeconds = Num(0), !.lastEtaUpdate = t, !.route = Arr(<<>>)]

\* index.js:254-259
RefreshedEntry(cache, googleResult, t) ==
  [etaSeconds |-> Num(googleResult.durationSeconds), route |-> Arr(googleResult.routePoints),
   lastEtaUpdate |-> t, previousEta |-> cache.etaSeconds]

\* A call's record: where it stands (pc), what it read, what it returned.
\* entry is what the call has written to the vehicle's cache entry, if write.
Call(pc, device, t, cached, loc, outcome, calls, payload, write, entry) ==
  [pc |-> pc, device |-> device, now |-> t, cached |-> cached, loc |-> loc,
   outcome |-> outcome, calls |-> calls, payload |-> payload,
   write |-> write, entry |-> entry]

\* An offline branch that evicts the vehicle's cache entry
OfflineResultEvicting(device, position, t) ==
  Call("done", device, t, EmptyEntryA, NoLocals, "offline", 0,
       PayloadA(device, position, Null, 0, "offline", <<>>), TRUE, EmptyEntryA)

\* index.js:187-201: the offline branch returns before the cache is read
OfflineResult(device, position, t) ==
  Call("done", device, t, EmptyEntryA, NoLocals, "offline", 0,
       PayloadA(device, position, Null, 0, "offline", <<>>), FALSE, EmptyEntryA)

\* index.js:168-245: computeBusETA up to its return or its await
computeBusETA(device, entry, t) ==
  LET lat == Number(device.last_lat)
      lng == Number(device.last_lon)
      position == [lat |-> lat.v, lng |-> lng.v]
      cache == entry
      route == IF cache.route.t = "array" THEN cache.route.v ELSE <<>>
  IN IF InvalidCoordinates(lat, lng)
       THEN Call("done", device, t, EmptyEntryA, NoLocals, "invalid", 0, NoPayload,
                 FALSE, EmptyEntryA)
     ELSE IF IsOffline(t, device.last_update)
       THEN OfflineResult(device, position, t)
     ELSE IF HasArrived(position)
       THEN Call("done", device, t, cache, NoLocals, "arrived", 0,
                 PayloadA(device, position, Num(0), 0, "arrived", <<>>),
                 TRUE, ArrivalEntry(cache, t))
     ELSE IF shouldRefresh(cache, t)
       THEN Call("awaitGoogle", device, t, cache, NoLocals, "pending", 1, NoPayload,
                 FALSE, EmptyEntryA)
     ELSE Call("done", device, t, cache, NoLocals, "countdown", 0,
               TrackingPayloadA(device, position, cache,
                                applyCountdown(cache.etaSeconds, cache.lastEtaUpdate, t),
                                route),
               FALSE, EmptyEntryA)

\* A computeBusETA that stamps the entry when the refresh has failed
computeBusETAResumeStampingFailure(call, googleResult) ==
  LET device == call.device
      cache == call.cached
      position == [lat |-> Number(device.last_lat).v, lng |-> Number(device.last_lon).v]
      route == IF cache.route.t = "array" THEN cache.route.v ELSE <<>>
  IN IF googleResult.ok
       THEN Call("done", device, call.now, cache, NoLocals, "refreshed", call.calls,
                 TrackingPayloadA(device, position, cache, googleResult.durationSeconds,
                                  googleResult.routePoints),
                 TRUE, RefreshedEntry(cache, googleResult, call.now))
     ELSE Call("done", device, call.now, cache, NoLocals, "failed", call.calls,
               TrackingPayloadA(device, position, cache, OrZero(cache.etaSeconds), route),
               TRUE, [cache EXCEPT !.lastEtaUpdate = call.now])

\* index.js:245-304: computeBusETA after getGoogleRouteData has resolved
computeBusETAResume(call, googleResult) ==
  LET device == call.device
      cache == call.cached
      position == [lat |-> Number(device.last_lat).v, lng |-> Number(device.last_lon).v]
      route == IF cache.route.t = "array" THEN cache.route.v ELSE <<>>
  IN IF googleResult.ok
       THEN Call("done", device, call.now, cache, NoLocals, "refreshed", call.calls,
                 TrackingPayloadA(device, position, cache, googleResult.durationSeconds,
                                  googleResult.routePoints),
                 TRUE, RefreshedEntry(cache, googleResult, call.now))
     ELSE Call("done", device, call.now, cache, NoLocals, "failed", call.calls,
               TrackingPayloadA(device, position, cache, OrZero(cache.etaSeconds), route),
               FALSE, EmptyEntryA)

-----------------------------------------------------------------------------
(* Cycles: one Promise.all over the calls of a device list *)

IdleCycle == [id |-> 0, kind |-> "idle", calls |-> <<>>]
NoRun == [cycle |-> 0]
NoEmission == [cycle |-> 0]

AllDone(calls) == \A i \in 1..Len(calls) : calls[i].pc = "done"
Pending(call) == call.pc # "done"

FreeSlot ==
  CHOOSE c \in 1..MaxInflight :
    cycles[c] = IdleCycle /\ \A d \in 1..(c - 1) : cycles[d] # IdleCycle

\* The cache after the writes (Map.set) the calls made in this step
Written(cache, calls) ==
  [b \in Bus |->
    IF \E i \in 1..Len(calls) : calls[i].device.device_id = b /\ calls[i].write
      THEN (CHOOSE e \in {calls[i].entry : i \in {j \in 1..Len(calls) :
                            calls[j].device.device_id = b /\ calls[j].write}} : TRUE)
      ELSE cache[b]]

\* lastRun after the calls that returned in this step
Completed(runs, id, calls) ==
  [b \in Bus |->
    IF \E i \in 1..Len(calls) : calls[i].device.device_id = b /\ calls[i].pc = "done"
      THEN [cycle |-> id,
            call |-> CHOOSE k \in {calls[i] : i \in {j \in 1..Len(calls) :
                        calls[j].device.device_id = b /\ calls[j].pc = "done"}} : TRUE]
      ELSE runs[b]]

\* refreshedAt after the calls that returned in this step: a successful
\* refresh stores the time its call read at its start
Refreshed(at, calls) ==
  [b \in Bus |->
    LET stored == {calls[i].now : i \in {j \in 1..Len(calls) :
                     /\ calls[j].device.device_id = b
                     /\ calls[j].pc = "done" /\ calls[j].outcome = "refreshed"}}
    IN IF stored = {} THEN at[b]
       ELSE Max(at[b], CHOOSE t \in stored : \A u \in stored : u <= t)]

\* arrivedAt after the calls that returned in this step: an arrival is
\* processed at the time its call read at its start
Arrived(at, calls) ==
  [b \in Bus |->
    LET seen == {calls[i].now : i \in {j \in 1..Len(calls) :
                   /\ calls[j].device.device_id = b
                   /\ calls[j].pc = "done" /\ calls[j].outcome = "arrived"}}
    IN IF seen = {} THEN at[b]
       ELSE Max(at[b], CHOOSE t \in seen : \A u \in seen : u <= t)]

Payloads(calls) == [i \in 1..Len(calls) |-> calls[i].payload]

\* index.js:345-362: the route-update events, then the snapshot
EmissionA(id, calls) ==
  LET validPayloads == SelectSeq(Payloads(calls), LAMBDA p : p # NoPayload)
  IN IF Len(validPayloads) > 0
       THEN [cycle |-> id, channel |-> "io", updates |-> validPayloads,
             snapshot |-> [count |-> Len(validPayloads), devices |-> validPayloads]]
       ELSE emitted

-----------------------------------------------------------------------------
(* Server A: the polling loop, index.js:311-373 *)

\* index.js:311-362: a timer tick whose fetch succeeds; every computeBusETA
\* runs to its return or to its await, and Promise.all resolves at once when
\* no call awaits the provider
fetchAndBroadcast ==
  /\ variant = VariantA
  /\ cycleCount < MaxCycles
  /\ \E c \in 1..MaxInflight : cycles[c] = IdleCycle
  /\ \E dt \in Elapse : \E devices \in Fleets(now + dt) :
       LET t == now + dt
           id == cycleCount + 1
           calls == [i \in 1..Len(devices) |->
                      computeBusETA(devices[i], etaCache[devices[i].device_id], t)]
       IN /\ now' = t
          /\ cycleCount' = id
          /\ etaCache' = Written(etaCache, calls)
          /\ lastRun' = Completed(lastRun, id, calls)
          /\ refreshedAt' = Refreshed(refreshedAt, calls)
          /\ arrivedAt' = Arrived(arrivedAt, calls)
          /\ IF AllDone(calls)
               THEN /\ emitted' = EmissionA(id, calls)
                    /\ cycles' = cycles
               ELSE /\ emitted' = emitted
                    /\ cycles' = [cycles EXCEPT ![FreeSlot] =
                                    [id |-> id, kind |-> "timer", calls |-> calls]]
  /\ UNCHANGED utilVars
  /\ UNCHANGED <<variant, notificationSubscriptions, googleApiCache, latestDevices, MOTO_STOP_COUNT, feed,
                 lastFetchedAt, lastFetchError>>

\* A failed fetch that broadcasts an empty snapshot
fetchAndBroadcastFailsEmitting ==
  /\ variant = VariantA
  /\ cycleCount < MaxCycles
  /\ now' = now + POLL_INTERVAL_MS
  /\ cycleCount' = cycleCount + 1
  /\ emitted' = [cycle |-> cycleCount + 1, channel |-> "io", updates |-> <<>>,
                  snapshot |-> [count |-> 0, devices |-> <<>>]]
  /\ UNCHANGED utilVars
  /\ UNCHANGED <<variant, notificationSubscriptions, etaCache, googleApiCache, latestDevices, MOTO_STOP_COUNT,
                 feed, lastFetchedAt, lastFetchError, cycles, lastRun, refreshedAt,
                 arrivedAt>>

\* index.js:328, 364-366: the fetch throws and the cycle ends in the catch
fetchAndBroadcastFails ==
  /\ variant = VariantA
  /\ cycleCount < MaxCycles
  /\ now' = now + POLL_INTERVAL_MS
  /\ cycleCount' = cycleCount + 1
  /\ UNCHANGED utilVars
  /\ UNCHANGED <<variant, notificationSubscriptions, etaCache, googleApiCache, latestDevices, MOTO_STOP_COUNT,
                 feed, lastFetchedAt, lastFetchError, cycles, lastRun, refreshedAt,
                 arrivedAt, emitted>>

\* index.js:245-304, 343-362: getGoogleRouteData resolves for one call; the
\* call returns, and the cycle emits when it was the last one awaited
getGoogleRouteDataReturns ==
  /\ variant = VariantA
  /\ \E c \in 1..MaxInflight : \E googleResult \in GoogleRouteData :
       /\ cycles[c] # IdleCycle
       /\ \E i \in 1..Len(cycles[c].calls) :
            /\ cycles[c].calls[i].pc = "awaitGoogle"
            /\ LET call == computeBusETAResume(cycles[c].calls[i], googleResult)
                   calls == [cycles[c].calls EXCEPT ![i] = call]
               IN /\ etaCache' = Written(etaCache, <<call>>)
                  /\ lastRun' = Completed(lastRun, cycles[c].id, <<call>>)
                  /\ refreshedAt' = Refreshed(refreshedAt, <<call>>)
                  /\ arrivedAt' = Arrived(arrivedAt, <<call>>)
                  /\ IF AllDone(calls)
                       THEN /\ emitted' = EmissionA(cycles[c].id, calls)
                            /\ cycles' = [cycles EXCEPT ![c] = IdleCycle]
                       ELSE /\ emitted' = emitted
                            /\ cycles' = [cycles EXCEPT ![c].calls = calls]
  /\ UNCHANGED utilVars
  /\ UNCHANGED <<variant, notificationSubscriptions, now, googleApiCache, latestDevices, MOTO_STOP_COUNT,
                 feed, lastFetchedAt, lastFetchError, cycleCount>>

-----------------------------------------------------------------------------
(* Server B: mapDeviceToSocketPayload, index.js:1108-1329 *)

\* utils/googleMaps.js:27-90  getETAFromGoogle never throws; duration is
\* null on any failure (and for a duration of 0: `value || null`)
EtaResults == {Null, Num(120), Num(300)}

\* utils/googleMaps.js:101-150  getRouteFromGoogle with an API key set: the
\* decoded polyline, or the two points origin and destination on a failure
FallbackRoute == <<0, 2>>
RouteResults == {<<1, 3, 2>>, FallbackRoute}

NoPosition == [set |-> FALSE, lat |-> 0, lng |-> 0]
EmptyEntryB ==
  [eta |-> Undefined, lastEta |-> Undefined, etaLastUpdate |-> 0, route |-> NoRoute,
   routeLastUpdate |-> 0, lastPosition |-> NoPosition]

\* index.js:1060-1063
normalizeCoordinate(value) ==
  IF Number(value) = NaN THEN Null ELSE Number(value)

\* index.js:1054-1058
secondsToMinutes(etaSeconds) ==
  IF Falsy(etaSeconds) \/ etaSeconds.v <= 0 THEN 0 ELSE RoundMinutes(etaSeconds.v)

\* index.js:1078-1080
getRemainingStops == MOTO_STOP_COUNT

\* index.js:1086-1104; currentEta - previousEta is NaN when currentEta is
\* undefined, and null counts as 0
getEtaStatus(currentEta, previousEta, isMoving, distanceMoved) ==
  IF ~isMoving /\ distanceMoved < 10 * 1000 THEN "stopped"
  ELSE IF previousEta.t \in {"null", "undefined"} THEN "normal"
  ELSE IF currentEta.t = "undefined" THEN "normal"
  ELSE LET etaChange == currentEta.v - previousEta.v
       IN IF etaChange > 120 THEN "traffic"
          ELSE IF etaChange < -60 THEN "faster"
          ELSE "normal"

\* index.js:1119-1120
IsMoving(device) == device.last_speed * 10 > 5

\* index.js:1132
IsStaleOrOffline(t, lastUpdateTimestamp) == t - lastUpdateTimestamp > STALE_DATA_LIMIT_MS

\* index.js:1153-1161
DistanceMoved(cached, lat, lng) ==
  IF cached.lastPosition.set
    THEN getDistanceInMeters(cached.lastPosition.lat, cached.lastPosition.lng, lat, lng)
    ELSE 0

\* A refresh decision without the exception for a stopped vehicle
ShouldRefreshEtaWhenStopped(cached, t, isMoving, distanceMoved) ==
  \/ cached.etaLastUpdate = 0
  \/ t - cached.etaLastUpdate > GOOGLE_ETA_CACHE_MS
  \/ distanceMoved > MIN_DISTANCE_FOR_ETA_REFRESH * 1000

\* index.js:1166-1176
ShouldRefreshEta(cached, t, isMoving, distanceMoved) ==
  LET cacheExpired == cached.etaLastUpdate = 0 \/ t - cached.etaLastUpdate > GOOGLE_ETA_CACHE_MS
      movedSignificantly == distanceMoved > MIN_DISTANCE_FOR_ETA_REFRESH * 1000
  IN IF /\ ~isMoving /\ distanceMoved < 50 * 1000
        /\ cached.etaLastUpdate # 0 /\ t - cached.etaLastUpdate < GOOGLE_ETA_CACHE_MS * 2
       THEN FALSE
       ELSE cacheExpired \/ movedSignificantly

\* index.js:1178-1179
ShouldRefreshRoute(cached, t) ==
  cached.routeLastUpdate = 0 \/ t - cached.routeLastUpdate > GOOGLE_ROUTE_CACHE_MS

\* index.js:1186-1207: the ETA of a cache hit
CacheHitEta(cached, t, isMoving) ==
  IF IsNumber(cached.eta) /\ cached.etaLastUpdate # 0 /\ isMoving
    THEN Num(Max(0, cached.eta.v - (t - cached.etaLastUpdate) \div 1000))
    ELSE cached.eta

\* index.js:1214-1216, 1264-1266
CachedRoute(cached) == IF cached.route.t = "array" THEN cached.route ELSE NullRoute

\* index.js:1289-1300
FinalETASeconds(googleETA) ==
  IF IsNumber(googleETA) /\ googleETA.v > 0
    THEN IF IsNumber(getRemainingStops)
           THEN Num(googleETA.v + getRemainingStops.v * DWELL_TIME_PER_STOP)
           ELSE NaN
    ELSE Num(0)

\* index.js:1136-1149: no route field
OfflinePayloadB(device, lat, lng) ==
  [busId |-> device.device_id, currentPosition |-> [lat |-> lat, lng |-> lng],
   eta |-> Null, etaSeconds |-> Num(0), isMoving |-> FALSE, route |-> NoRoute,
   speed |-> 0, lastUpdate |-> device.last_update, etaStatus |-> "offline"]

\* index.js:1289-1328
PayloadB(device, googleETA, googleRoute, etaStatus) ==
  [busId |-> device.device_id,
   currentPosition |-> [lat |-> normalizeCoordinate(device.last_lat).v,
                        lng |-> normalizeCoordinate(device.last_lon).v],
   eta |-> Num(secondsToMinutes(FinalETASeconds(googleETA))),
   etaSeconds |-> FinalETASeconds(googleETA), isMoving |-> IsMoving(device),
   route |-> googleRoute, speed |-> device.last_speed,
   lastUpdate |-> device.last_update, etaStatus |-> etaStatus]

\* The locals a call keeps across an await; etaOutcome says how its ETA
\* request ended: "none" (not requested), "refreshed" or "failed"
Locals(updatedCache, googleETA, etaStatus, etaOutcome) ==
  [updatedCache |-> updatedCache, googleETA |-> googleETA, etaStatus |-> etaStatus,
   etaOutcome |-> etaOutcome]

\* index.js:1268-1270, 1289-1328: the cache is set and the payload returned
FinishRefresh(call, updatedCache, googleETA, googleRoute, etaStatus, etaOutcome, calls) ==
  LET lat == normalizeCoordinate(call.device.last_lat).v
      lng == normalizeCoordinate(call.device.last_lon).v
      entry == [updatedCache EXCEPT !.lastPosition = [set |-> TRUE, lat |-> lat, lng |-> lng]]
  IN Call("done", call.device, call.now, call.cached,
          Locals(entry, googleETA, etaStatus, etaOutcome),
          IF etaOutcome = "none" THEN "route" ELSE etaOutcome,
          calls, PayloadB(call.device, googleETA, googleRoute, etaStatus), TRUE, entry)

\* index.js:1108-1230, 1250-1256, 1283-1328: mapDeviceToSocketPayload up to
\* its return or its first await
mapDeviceToSocketPayload(device, cached, t) ==
  LET lat == normalizeCoordinate(device.last_lat)
      lng == normalizeCoordinate(device.last_lon)
      isMoving == IsMoving(device)
      distanceMoved == DistanceMoved(cached, lat.v, lng.v)
      etaStatus == getEtaStatus(cached.eta, cached.lastEta, isMoving, distanceMoved)
      shouldRefreshEta == ShouldRefreshEta(cached, t, isMoving, distanceMoved)
      shouldRefreshRoute == ShouldRefreshRoute(cached, t)
  IN IF lat = Null \/ lng = Null
       THEN Call("done", device, t, cached, NoLocals, "invalid", 0, NoPayload,
                 FALSE, EmptyEntryB)
     ELSE IF IsStaleOrOffline(t, device.last_update)
       THEN Call("done", device, t, cached, NoLocals, "offline", 0,
                 OfflinePayloadB(device, lat.v, lng.v), FALSE, EmptyEntryB)
     ELSE IF shouldRefreshEta
       THEN Call("awaitEta", device, t, cached, Locals(cached, Null, etaStatus, "none"),
                 "pending", 1, NoPayload, FALSE, EmptyEntryB)
     ELSE IF shouldRefreshRoute
       THEN Call("awaitRoute", device, t, cached,
                 Locals(cached, IF IsNumber(cached.eta) THEN cached.eta ELSE Null, etaStatus,
                        "none"),
                 "pending", 1, NoPayload, FALSE, EmptyEntryB)
     ELSE Call("done", device, t, cached, NoLocals, "countdown", 0,
               PayloadB(device, CacheHitEta(cached, t, isMoving), CachedRoute(cached),
                        IF isMoving THEN etaStatus ELSE "stopped"),
               FALSE, EmptyEntryB)

\* index.js:1230-1266: after getETAFromGoogle has resolved
mapDeviceAfterEta(call, etaResult) ==
  LET cached == call.cached
      lat == normalizeCoordinate(call.device.last_lat).v
      lng == normalizeCoordinate(call.device.last_lon).v
      isMoving == IsMoving(call.device)
      newEta == etaResult
      updatedCache == [cached EXCEPT !.lastEta = cached.eta, !.eta = newEta,
                                     !.etaLastUpdate = call.now]
      etaStatus == getEtaStatus(newEta, cached.eta, isMoving, DistanceMoved(cached, lat, lng))
      etaOutcome == IF IsNumber(etaResult) THEN "refreshed" ELSE "failed"
  IN IF ShouldRefreshRoute(cached, call.now)
       THEN Call("awaitRoute", call.device, call.now, cached,
                 Locals(updatedCache, newEta, etaStatus, etaOutcome), "pending",
                 call.calls + 1, NoPayload, FALSE, EmptyEntryB)
       ELSE FinishRefresh(call, updatedCache, newEta, CachedRoute(cached), etaStatus,
                          etaOutcome, call.calls)

\* index.js:1256-1270: after getRouteFromGoogle has resolved
mapDeviceAfterRoute(call, googleRoute) ==
  LET updatedCache == [call.loc.updatedCache EXCEPT !.route = Arr(googleRoute),
                                                    !.routeLastUpdate = call.now]
  IN FinishRefresh(call, updatedCache, call.loc.googleETA, Arr(googleRoute),
                   call.loc.etaStatus, call.loc.etaOutcome, call.calls)

\* index.js:1384-1395, 1508-1521: the route-update events, then the snapshot
\* of the raw device list
EmissionB(id, channel, devices, calls, timestamp) ==
  [cycle |-> id, channel |-> channel,
   updates |-> SelectSeq(Payloads(calls), LAMBDA p : p # NoPayload),
   snapshot |-> [count |-> Len(devices), devices |-> devices, timestamp |-> timestamp]]

\* `eta <= notificationTime` of index.js:1421: null is compared as 0, and a
\* comparison with NaN or undefined is false
LessOrEqual(a, b) ==
  LET n(x) == IF x.t = "null" THEN Num(0) ELSE x
  IN n(a).t = "number" /\ n(b).t = "number" /\ n(a).v <= n(b).v

\* A handleNotifications that follows the ETA: the flag is set while the
\* ETA is within the notification time and cleared when it is not
handleNotificationsFollowingEta(subscriptions, payload) ==
  [subscriptions EXCEPT ![payload.busId] =
    [i \in 1..Len(@) |->
       [pushToken |-> @[i].pushToken, notificationTime |-> @[i].notificationTime,
        notified |-> LessOrEqual(payload.eta, @[i].notificationTime)]]]

\* index.js:1415-1431  handleNotifications(payload); a vehicle without
\* subscriptions has the empty list
handleNotifications(subscriptions, payload) ==
  [subscriptions EXCEPT ![payload.busId] =
    [i \in 1..Len(@) |->
       IF LessOrEqual(payload.eta, @[i].notificationTime) /\ ~@[i].notified
         THEN [@[i] EXCEPT !.notified = TRUE]
         ELSE @[i]]]

\* index.js:1384-1389: handleNotifications for every payload of a broadcast,
\* in the order of the device list
RECURSIVE Notified(_, _)
Notified(subscriptions, payloads) ==
  IF payloads = <<>> THEN subscriptions
  ELSE Notified(IF Head(payloads) = NoPayload THEN subscriptions
                ELSE handleNotifications(subscriptions, Head(payloads)),
                Tail(payloads))

\* A cycle of server B starts: every mapDeviceToSocketPayload runs to its
\* return or its first await
StartCycleB(kind, channel, devices, t, fetchedAt) ==
  LET id == cycleCount + 1
      calls == [i \in 1..Len(devices) |->
                 mapDeviceToSocketPayload(devices[i], googleApiCache[devices[i].device_id], t)]
  IN /\ cycleCount' = id
     /\ googleApiCache' = Written(googleApiCache, calls)
     /\ lastRun' = Completed(lastRun, id, calls)
     /\ refreshedAt' = Refreshed(refreshedAt, calls)
     /\ arrivedAt' = Arrived(arrivedAt, calls)
     /\ IF AllDone(calls)
          THEN /\ emitted' = EmissionB(id, channel, devices, calls, fetchedAt)
               /\ notificationSubscriptions' =
                    IF channel = "io" THEN Notified(notificationSubscriptions, Payloads(calls))
                    ELSE notificationSubscriptions
               /\ cycles' = cycles
          ELSE /\ emitted' = emitted
               /\ notificationSubscriptions' = notificationSubscriptions
               /\ cycles' = [cycles EXCEPT ![FreeSlot] =
                               [id |-> id, kind |-> kind, calls |-> calls]]

\* index.js:1333-1363, 1370-1396: a timer tick whose fetch succeeds
fetchLiveDevices ==
  /\ variant = VariantB
  /\ cycleCount < MaxCycles
  /\ \E c \in 1..MaxInflight : cycles[c] = IdleCycle
  /\ \E dt \in Elapse : \E devices \in Fleets(now + dt) :
       /\ now' = now + dt
       /\ latestDevices' = devices
       /\ lastFetchedAt' = now + dt
       /\ lastFetchError' = FALSE
       /\ StartCycleB("timer", "io", devices, now + dt, now + dt)
  /\ UNCHANGED utilVars
  /\ UNCHANGED <<variant, etaCache, MOTO_STOP_COUNT, feed>>

\* index.js:1353-1367: the fetch throws, or the response has another shape
fetchLiveDevicesFails ==
  /\ variant = VariantB
  /\ cycleCount < MaxCycles
  /\ now' = now + POLL_INTERVAL_MS
  /\ cycleCount' = cycleCount + 1
  /\ lastFetchError' = TRUE
  /\ UNCHANGED utilVars
  /\ UNCHANGED <<variant, notificationSubscriptions, etaCache, googleApiCache, latestDevices, MOTO_STOP_COUNT,
                 feed, lastFetchedAt, cycles, lastRun, refreshedAt, arrivedAt,
                 emitted>>

\* index.js:1498-1522: a client connects and is sent the payloads of the
\* latest device list
ClientConnects ==
  /\ variant = VariantB
  /\ cycleCount < MaxCycles
  /\ \E c \in 1..MaxInflight : cycles[c] = IdleCycle
  /\ Len(latestDevices) > 0
  /\ StartCycleB("connection", "socket", latestDevices, now, lastFetchedAt)
  /\ UNCHANGED utilVars
  /\ UNCHANGED <<variant, now, etaCache, latestDevices, MOTO_STOP_COUNT, feed,
                 lastFetchedAt, lastFetchError>>

\* One call of a cycle of server B moves on: it returns, or awaits the route
ResumeB(c, i, call) ==
  LET calls == [cycles[c].calls EXCEPT ![i] = call]
      channel == IF cycles[c].kind = "timer" THEN "io" ELSE "socket"
      devices == [k \in 1..Len(calls) |-> calls[k].device]
  IN /\ googleApiCache' = Written(googleApiCache, <<call>>)
     /\ lastRun' = Completed(lastRun, cycles[c].id, <<call>>)
     /\ refreshedAt' = Refreshed(refreshedAt, <<call>>)
     /\ arrivedAt' = Arrived(arrivedAt, <<call>>)
     /\ IF AllDone(calls)
          THEN /\ emitted' = EmissionB(cycles[c].id, channel, devices, calls, lastFetchedAt)
               /\ notificationSubscriptions' =
                    IF channel = "io" THEN Notified(notificationSubscriptions, Payloads(calls))
                    ELSE notificationSubscriptions
               /\ cycles' = [cycles EXCEPT ![c] = IdleCycle]
          ELSE /\ emitted' = emitted
               /\ notificationSubscriptions' = notificationSubscriptions
               /\ cycles' = [cycles EXCEPT ![c].calls = calls]
     /\ UNCHANGED utilVars
     /\ UNCHANGED <<variant, now, etaCache, latestDevices, MOTO_STOP_COUNT, feed,
                    lastFetchedAt, lastFetchError, cycleCount>>

\* index.js:1230-1235: getETAFromGoogle resolves for one call
getETAFromGoogleReturns ==
  /\ variant = VariantB
  /\ \E c \in 1..MaxInflight : \E etaResult \in EtaResults :
       /\ cycles[c] # IdleCycle
       /\ \E i \in 1..Len(cycles[c].calls) :
            /\ cycles[c].calls[i].pc = "awaitEta"
            /\ ResumeB(c, i, mapDeviceAfterEta(cycles[c].calls[i], etaResult))

\* index.js:1256-1261: getRouteFromGoogle resolves for one call
getRouteFromGoogleReturns ==
  /\ variant = VariantB
  /\ \E c \in 1..MaxInflight : \E googleRoute \in RouteResults :
       /\ cycles[c] # IdleCycle
       /\ \E i \in 1..Len(cycles[c].calls) :
            /\ cycles[c].calls[i].pc = "awaitRoute"
            /\ ResumeB(c, i, mapDeviceAfterRoute(cycles[c].calls[i], googleRoute))

\* index.js:1457  parseInt(notificationTime, 10) of a whole number, or of
\* a string without digits
parseInt(value) == IF value.t = "number" THEN value ELSE NaN

\* !notificationTime of index.js:1438: a string with characters is truthy
Missing(value) == value # Text /\ Falsy(value)

\* Expo.isExpoPushToken (index.js:1442)
ExpoPushTokens == {"t1", "t2"}

\* The request bodies sent to the two endpoints: complete ones (3 minutes,
\* or a notificationTime without digits) and ones with a missing field ("",
\* 0) or a pushToken that is no Expo token
Body(busId, notificationTime, pushToken) ==
  [busId |-> busId, notificationTime |-> notificationTime, pushToken |-> pushToken]
Bodies ==
  { Body("b1", Num(3), "t1"), Body("b1", Num(3), "t2"), Body("b1", Text, "t2"),
    Body("", Num(3), "t1"), Body("b1", Num(0), "t1"), Body("b1", Num(3), ""),
    Body("b1", Num(3), "other") }

findIndex(subscriptions, pushToken) ==
  IF \E i \in 1..Len(subscriptions) : subscriptions[i].pushToken = pushToken
    THEN CHOOSE i \in 1..Len(subscriptions) :
           /\ subscriptions[i].pushToken = pushToken
           /\ \A j \in 1..(i - 1) : subscriptions[j].pushToken # pushToken
    ELSE 0

\* index.js:1435-1470  POST /api/register-notification
registerNotification(body) ==
  /\ variant = VariantB
  /\ LET subscriptions == notificationSubscriptions[body.busId]
         existingIndex == findIndex(subscriptions, body.pushToken)
         subscription == [pushToken |-> body.pushToken,
                          notificationTime |-> parseInt(body.notificationTime),
                          notified |-> FALSE]
     IN notificationSubscriptions' =
          IF body.busId = "" \/ Missing(body.notificationTime) \/ body.pushToken = ""
            THEN notificationSubscriptions
          ELSE IF body.pushToken \notin ExpoPushTokens
            THEN notificationSubscriptions
          ELSE IF existingIndex > 0
            THEN [notificationSubscriptions EXCEPT
                    ![body.busId] = [subscriptions EXCEPT ![existingIndex] = subscription]]
          ELSE [notificationSubscriptions EXCEPT
                  ![body.busId] = Append(subscriptions, subscription)]
  /\ UNCHANGED utilVars
  /\ UNCHANGED <<variant, now, etaCache, googleApiCache, latestDevices, MOTO_STOP_COUNT,
                 feed, lastFetchedAt, lastFetchError, cycles, cycleCount, lastRun,
                 refreshedAt, arrivedAt, emitted>>

\* index.js:1473-1494  POST /api/unregister-notification
unregisterNotification(body) ==
  /\ variant = VariantB
  /\ LET subscriptions == notificationSubscriptions[body.busId]
         index == findIndex(subscriptions, body.pushToken)
     IN notificationSubscriptions' =
          IF body.busId = "" \/ body.pushToken = "" THEN notificationSubscriptions
          ELSE IF index > 0
            THEN [notificationSubscriptions EXCEPT
                    ![body.busId] = SubSeq(subscriptions, 1, index - 1)
                                      \o SubSeq(subscriptions, index + 1, Len(subscriptions))]
          ELSE notificationSubscriptions
  /\ UNCHANGED utilVars
  /\ UNCHANGED <<variant, now, etaCache, googleApiCache, latestDevices, MOTO_STOP_COUNT,
                 feed, lastFetchedAt, lastFetchError, cycles, cycleCount, lastRun,
                 refreshedAt, arrivedAt, emitted>>

NextB ==
  \/ fetchLiveDevices
  \/ fetchLiveDevicesFails
  \/ ClientConnects
  \/ getETAFromGoogleReturns
  \/ getRouteFromGoogleReturns

NextA == fetchAndBroadcast \/ fetchAndBroadcastFails \/ getGoogleRouteDataReturns

-----------------------------------------------------------------------------
(* utils/smoothing.js.  Its numbers are doubles; here every quantity is a  *)
(* whole number of thousandths (speed in km/h, ETA in seconds, distance in *)
(* metres, the error covariance of the speed and ETA filters), positions   *)
(* are in 1e-5 degrees and the error covariance of the position filter is  *)
(* in 1e-6, the unit of its noise parameters.  A product is rounded        *)
(* towards zero.                                                           *)

Min(a, b) == IF a < b THEN a ELSE b

\* a * b / c for b >= 0, c > 0, rounded towards zero, without forming a * b
MulDiv(a, b, c) ==
  LET m == Abs(a)
      whole == b * (m \div c) + (b * (m % c)) \div c
  IN IF a < 0 THEN -whole ELSE whole

\* smoothing.js:23-45
kalmanFilter1D(state, measurement, processNoise, measurementNoise) ==
  IF state = Null THEN [value |-> measurement, errorCovariance |-> 1000]
  ELSE LET predictedValue == state.value
           predictedErrorCovariance == state.errorCovariance + processNoise
           \* kalmanGain is predictedErrorCovariance / total
           total == predictedErrorCovariance + measurementNoise
           updatedValue ==
             predictedValue
               + MulDiv(measurement - predictedValue, predictedErrorCovariance, total)
           updatedErrorCovariance ==
             MulDiv(measurementNoise, predictedErrorCovariance, total)
       IN [value |-> updatedValue, errorCovariance |-> updatedErrorCovariance]

\* smoothing.js:58-88
kalmanFilter2D(state, measurement, processNoise, measurementNoise) ==
  IF state = Null \/ state.lat = 0 \/ state.lng = 0
  THEN [lat |-> measurement.lat, lng |-> measurement.lng, latError |-> 100, lngError |-> 100]
  ELSE LET latFilter ==
             kalmanFilter1D([value |-> state.lat, errorCovariance |-> state.latError],
                            measurement.lat, processNoise, measurementNoise)
           lngFilter ==
             kalmanFilter1D([value |-> state.lng, errorCovariance |-> state.lngError],
                            measurement.lng, processNoise, measurementNoise)
       IN [lat |-> latFilter.value, lng |-> lngFilter.value,
           latError |-> latFilter.errorCovariance, lngError |-> lngFilter.errorCovariance]

\* smoothing.js:104-109, alpha in hundredths
exponentialMovingAverage(previousValue, newValue, alpha) ==
  IF previousValue.t \in {"null", "undefined"} THEN newValue
  ELSE (alpha * newValue + (100 - alpha) * previousValue.v) \div 100

\* A smoothSpeed that does not clamp the raw speed
smoothSpeedUnclamped(state, newSpeed) ==
  IF newSpeed.t # "number"
  THEN IF state = Null THEN [speed |-> 0, speedFilter |-> Null, speedEMA |-> 0] ELSE state
  ELSE LET speedFilter ==
             kalmanFilter1D(IF state = Null THEN Null ELSE state.speedFilter,
                            newSpeed.v, 500, 2000)
           speedEMA ==
             exponentialMovingAverage(
               IF state = Null THEN Num(newSpeed.v) ELSE Num(state.speedEMA),
               speedFilter.value, 30)
       IN [speed |-> Max(0, speedEMA), speedFilter |-> speedFilter, speedEMA |-> speedEMA]

\* smoothing.js:120-148
smoothSpeed(state, newSpeed) ==
  IF newSpeed.t # "number"
  THEN IF state = Null THEN [speed |-> 0, speedFilter |-> Null, speedEMA |-> 0] ELSE state
  ELSE LET clampedSpeed == Max(0, Min(120000, newSpeed.v))
           speedFilter ==
             kalmanFilter1D(IF state = Null THEN Null ELSE state.speedFilter,
                            clampedSpeed, 500, 2000)
           speedEMA ==
             exponentialMovingAverage(
               IF state = Null THEN Num(clampedSpeed) ELSE Num(state.speedEMA),
               speedFilter.value, 30)
       IN [speed |-> Max(0, speedEMA), speedFilter |-> speedFilter, speedEMA |-> speedEMA]

\* smoothing.js:174-192: the target, at most 5% below and 2% above the
\* previous etaEMA
TargetETA(state, clampedETA) ==
  IF state # Null /\ state.etaEMA > 0
  THEN LET previousETA == state.etaEMA
           maxDecrease == (previousETA * 5) \div 100
           maxIncrease == (previousETA * 2) \div 100
       IN IF clampedETA < previousETA - maxDecrease THEN previousETA - maxDecrease
          ELSE IF clampedETA > previousETA + maxIncrease THEN previousETA + maxIncrease
          ELSE clampedETA
  ELSE clampedETA

\* smoothing.js:213-226: the final check, at most 5% either way
AdjustedETA(state, etaEMA) ==
  IF state # Null /\ state.etaEMA > 0
  THEN LET maxChange == (state.etaEMA * 5) \div 100
       IN IF Abs(etaEMA - state.etaEMA) > maxChange
          THEN IF etaEMA < state.etaEMA THEN state.etaEMA - maxChange
               ELSE state.etaEMA + maxChange
          ELSE etaEMA
  ELSE etaEMA

\* A smoothETA that answers an invalid raw ETA with a new state
smoothETAResettingOnInvalid(state, rawETA, smoothedSpeed, distance) ==
  IF rawETA.t # "number" \/ rawETA.v < 0
  THEN [eta |-> 0, etaFilter |-> Null, etaEMA |-> 0]
  ELSE LET clampedETA == Max(0, Min(3600000, rawETA.v))
           targetETA == TargetETA(state, clampedETA)
           etaFilter ==
             kalmanFilter1D(IF state = Null THEN Null ELSE state.etaFilter,
                            targetETA, 1000, 15000)
           etaEMA ==
             exponentialMovingAverage(
               IF state = Null THEN Num(targetETA) ELSE Num(state.etaEMA),
               etaFilter.value, 5)
           adjustedETA == AdjustedETA(state, etaEMA)
       IN [eta |-> Max(0, adjustedETA), etaFilter |-> etaFilter, etaEMA |-> adjustedETA]

\* smoothing.js:164-234 (smoothedSpeed and distance are not used)
smoothETA(state, rawETA, smoothedSpeed, distance) ==
  IF rawETA.t # "number" \/ rawETA.v < 0
  THEN IF state = Null THEN [eta |-> 0, etaFilter |-> Null, etaEMA |-> 0] ELSE state
  ELSE LET clampedETA == Max(0, Min(3600000, rawETA.v))
           targetETA == TargetETA(state, clampedETA)
           etaFilter ==
             kalmanFilter1D(IF state = Null THEN Null ELSE state.etaFilter,
                            targetETA, 1000, 15000)
           etaEMA ==
             exponentialMovingAverage(
               IF state = Null THEN Num(targetETA) ELSE Num(state.etaEMA),
               etaFilter.value, 5)
           adjustedETA == AdjustedETA(state, etaEMA)
       IN [eta |-> Max(0, adjustedETA), etaFilter |-> etaFilter, etaEMA |-> adjustedETA]

\* smoothing.js:245-264
smoothPosition(state, newPosition) ==
  IF Falsy(newPosition.lat) \/ Falsy(newPosition.lng) THEN state
  ELSE LET positionFilter ==
             kalmanFilter2D(IF state = Null THEN Null ELSE state.positionFilter,
                            [lat |-> newPosition.lat.v, lng |-> newPosition.lng.v], 10, 100)
       IN [position |-> [lat |-> positionFilter.lat, lng |-> positionFilter.lng],
           positionFilter |-> positionFilter]

\* smoothing.js:272-279
BusSmoothingState(busId) ==
  [busId |-> busId, speedState |-> Null, etaState |-> Null, positionState |-> Null,
   lastUpdate |-> 0, history |-> <<>>]

\* smoothing.js:299-307
DistanceTo(positionState, destination) ==
  IF destination # Null /\ destination.lat # 0 /\ destination.lng # 0
  THEN getDistanceInMeters(positionState.position.lat, positionState.position.lng,
                           destination.lat, destination.lng)
  ELSE 0

\* smoothing.js:311-319: device.etaSeconds, else distance / (speed / 3.6)
RawETA(device, speedState, distance) ==
  IF IsNumber(device.etaSeconds) THEN device.etaSeconds
  ELSE IF speedState.speed > 0 /\ distance > 0
       THEN Num(MulDiv(distance, 3600, speedState.speed))
       ELSE Null

\* The push of line 330 followed by pop() in place of shift()
PushSampleEvictingNewest(history, sample) ==
  IF Len(history) >= 5 THEN history ELSE Append(history, sample)

\* smoothing.js:330-337
PushSample(history, sample) ==
  LET pushed == Append(history, sample)
  IN IF Len(pushed) > 5 THEN Tail(pushed) ELSE pushed

\* smoothing.js:289-348  BusSmoothingState.update.  Reading
\* this.positionState.position throws while positionState is null: at line
\* 302 with a destination, else at line 331 after etaState was assigned.
update(self, device, destination, t) ==
  LET newPosition == [lat |-> device.last_lat, lng |-> device.last_lon]
      positionState == smoothPosition(self.positionState, newPosition)
      speedState == smoothSpeed(self.speedState, device.last_speed)
      hasDestination == destination # Null /\ destination.lat # 0 /\ destination.lng # 0
  IN IF positionState = Null
     THEN [threw |-> TRUE, returned |-> Null,
           self |-> IF hasDestination
                    THEN [self EXCEPT !.speedState = speedState]
                    ELSE [self EXCEPT !.speedState = speedState,
                                      !.etaState =
                                        smoothETA(self.etaState,
                                                  RawETA(device, speedState, 0),
                                                  speedState.speed, 0)]]
     ELSE LET distance == DistanceTo(positionState, destination)
              rawETA == RawETA(device, speedState, distance)
              etaState == smoothETA(self.etaState, rawETA, speedState.speed, distance)
              sample == [position |-> positionState.position, timestamp |-> t,
                         speed |-> speedState.speed]
          IN [threw |-> FALSE,
              returned |-> [position |-> positionState.position, speed |-> speedState.speed,
                            eta |-> etaState.eta, rawETA |-> rawETA, distance |-> distance],
              self |-> [self EXCEPT !.positionState = positionState,
                                    !.speedState = speedState,
                                    !.etaState = etaState,
                                    !.history = PushSample(self.history, sample),
                                    !.lastUpdate = t]]

\* The calls made on one BusSmoothingState: what a poller passes to update().
\* A fix {last_lat, last_lon, last_speed, etaSeconds} and the destination.
Fix(lat, speed, etaSeconds) ==
  [last_lat |-> lat, last_lon |-> Num(3008909), last_speed |-> speed,
   etaSeconds |-> etaSeconds]
Towards(destination, fixes) == { [device |-> d, destination |-> destination] : d \in fixes }
Target == [lat |-> DESTINATION.lat, lng |-> DESTINATION.lng]

SmoothingFeeds == {"eta", "speed", "invalid", "burst"}

\* "eta": the fix carries etaSeconds (0 s, 10 s, 100 s) or, stopped, none; "speed": the ETA is
\* distance over smoothed speed (0, 36, 150 and -20 km/h); "invalid": fixes without
\* a latitude, with a negative or an over-long ETA, with a speed that is no
\* number; "burst": two positions, in calls that may come within the same
\* millisecond
Updates ==
  CASE feed = "eta" ->
         Towards(Target, { Fix(Num(-194410), Num(0), Num(e)) : e \in {0, 10000, 100000} }
                           \cup { Fix(Num(-194410), Num(0), Undefined) })
    [] feed = "speed" ->
         Towards(Target, { Fix(Num(-194410), Num(0), Undefined),
                           Fix(Num(-194410), Num(36000), Undefined),
                           Fix(Num(-194590), Num(150000), Undefined),
                           Fix(Num(-194410), Num(-20000), Undefined) })
         \cup Towards(Null, { Fix(Num(-194590), Num(36000), Undefined) })
    [] feed = "invalid" ->
         Towards(Target, { Fix(Null, NaN, Undefined),
                           Fix(Num(-194410), Undefined, Num(-5000)),
                           Fix(Num(-194410), Num(36000), Num(4000000)) })
         \cup Towards(Null, { Fix(Null, Num(36000), Num(100000)) })
    [] feed = "burst" ->
         Towards(Target, { Fix(Num(-194410), Num(36000), Undefined),
                           Fix(Num(-194590), Num(36000), Undefined) })

\* smoothing.js:332  Date.now() at the push: a polling period after the
\* previous call or, in a burst, possibly the same millisecond
UpdateElapse == IF feed = "burst" THEN {0, POLL_INTERVAL_MS} ELSE {POLL_INTERVAL_MS}

NoPrediction == [called |-> FALSE]
NoUpdates == [calls |-> 0, pushed |-> <<>>, threw |-> FALSE, returned |-> Null]

\* One update() call of the poller, at the next tick
updateCall ==
  /\ updateLog.calls < MaxUpdates
  /\ \E dt \in UpdateElapse : now' = now + dt
  /\ \E u \in Updates :
       LET r == update(busState, u.device, u.destination, now')
       IN /\ busState' = r.self
          /\ updateLog' =
               [calls |-> updateLog.calls + 1,
                pushed |-> IF r.threw THEN updateLog.pushed
                           ELSE Append(updateLog.pushed,
                                       r.self.history[Len(r.self.history)]),
                threw |-> r.threw,
                returned |-> r.returned]
  /\ prediction' = NoPrediction
  /\ UNCHANGED <<serverVars, feed, request, reply, dummyBus>>

\* smoothing.js:409-423 for two points of one meridian: atan2(0, x) is 0
\* for x >= 0 (northwards, or no movement) and 180 degrees for x < 0
calculateBearing(lat1, lon1, lat2, lon2) == IF lat2 >= lat1 THEN 0 ELSE 180

\* smoothing.js:434-458 along a meridian, distance in millimetres
movePosition(lat, lon, bearing, distance) ==
  [lat |-> IF bearing = 0 THEN lat + distance \div 1112 ELSE lat - distance \div 1112,
   lng |-> lon]

\* A predictPosition that needs three samples
predictPositionNeedingThreeSamples(self, secondsAhead) ==
  IF Len(self.history) < 3 \/ self.positionState = Null THEN Null
  ELSE LET latest == self.history[Len(self.history)]
           previous == self.history[Len(self.history) - 2]
           timeDiff == latest.timestamp - previous.timestamp
       IN IF timeDiff <= 0 THEN Null
          ELSE movePosition(latest.position.lat, latest.position.lng,
                            calculateBearing(previous.position.lat, previous.position.lng,
                                             latest.position.lat, latest.position.lng),
                            MulDiv(getDistanceInMeters(previous.position.lat,
                                                       previous.position.lng,
                                                       latest.position.lat,
                                                       latest.position.lng),
                                   secondsAhead * 1000, timeDiff))

\* smoothing.js:357-397  predictPosition(secondsAhead, haversineDistance),
\* called with the distance function update() is called with
predictPosition(self, secondsAhead) ==
  IF Len(self.history) < 2 \/ self.positionState = Null THEN Null
  ELSE LET recent == SubSeq(self.history, Max(1, Len(self.history) - 2), Len(self.history))
           latest == recent[Len(recent)]
           previous == recent[1]
           timeDiff == latest.timestamp - previous.timestamp
       IN IF Len(recent) < 2 THEN Null
          ELSE IF timeDiff <= 0 THEN Null
          ELSE LET distance ==
                     getDistanceInMeters(previous.position.lat, previous.position.lng,
                                         latest.position.lat, latest.position.lng)
                   bearing ==
                     calculateBearing(previous.position.lat, previous.position.lng,
                                      latest.position.lat, latest.position.lng)
                   distanceAhead == MulDiv(distance, secondsAhead * 1000, timeDiff)
               IN movePosition(latest.position.lat, latest.position.lng, bearing,
                               distanceAhead)

\* secondsAhead: the default, and ten seconds
SecondsAhead == {1, 10}

\* A predictPosition call on the vehicle's state
predictPositionCall ==
  /\ feed = "burst"
  /\ \E secondsAhead \in SecondsAhead :
       prediction' = [called |-> TRUE, secondsAhead |-> secondsAhead,
                      returned |-> predictPosition(busState, secondsAhead)]
  /\ UNCHANGED <<serverVars, now, feed, busState, updateLog, request, reply, dummyBus>>

-----------------------------------------------------------------------------
(* utils/googleMaps.js (getRouteFromGoogle and its decodePolyline) and the *)
(* decodePolyline of index.js.  An encoded polyline is the sequence of its *)
(* character codes; a decoded point is {lat, lng} in 1e-5 degrees.         *)

\* index.js:93-97, 103-107 (googleMaps.js:169-173, 179-183): one do-while
\* loop, from the character at `index` (counted from 1).  Past the end
\* charCodeAt is NaN: NaN & 0x1f is 0 and NaN >= 0x20 is false.  Chunks of
\* five bits do not overlap, so |= adds.
RECURSIVE ReadValue(_, _, _, _)
ReadValue(encoded, index, shift, result) ==
  IF index > Len(encoded) THEN [result |-> result, index |-> index + 1]
  ELSE LET b == encoded[index] - 63
           bits == result + (b % 32) * 2^shift
       IN IF b >= 32 THEN ReadValue(encoded, index + 1, shift + 5, bits)
          ELSE [result |-> bits, index |-> index + 1]

\* index.js:98 (googleMaps.js:174): (result & 1) !== 0 ? ~(result >> 1) : (result >> 1)
Delta(result) == IF result % 2 # 0 THEN -(result \div 2) - 1 ELSE result \div 2

\* index.js:91-113 (googleMaps.js:165-188): the while loop
RECURSIVE DecodeFrom(_, _, _, _, _)
DecodeFrom(encoded, index, lat, lng, poly) ==
  IF index > Len(encoded) THEN poly
  ELSE LET first == ReadValue(encoded, index, 0, 0)
           second == ReadValue(encoded, first.index, 0, 0)
           p == [lat |-> lat + Delta(first.result), lng |-> lng + Delta(second.result)]
       IN DecodeFrom(encoded, second.index, p.lat, p.lng, Append(poly, p))

\* index.js:85-115
decodePolyline(encoded) == IF encoded = <<>> THEN <<>> ELSE DecodeFrom(encoded, 1, 0, 0, <<>>)

\* utils/googleMaps.js:158-191, called with a non-empty string only (line 125)
decodeRoutePolyline(encoded) == DecodeFrom(encoded, 1, 0, 0, <<>>)

\* utils/googleMaps.js:128-132, 137-140, 145-148
TwoPoints(originLat, originLon, destLat, destLon) ==
  << [lat |-> originLat, lng |-> originLon], [lat |-> destLat, lng |-> destLon] >>

\* utils/googleMaps.js:101-150.  apiKey: whether getGoogleMapsApiKey() finds
\* one; response: what axios.get does.
getRouteFromGoogle(apiKey, response, originLat, originLon, destLat, destLon) ==
  IF ~apiKey THEN <<>>
  ELSE IF response.kind = "ok" /\ response.polyline # <<>>
       THEN decodeRoutePolyline(response.polyline)
       ELSE TwoPoints(originLat, originLon, destLat, destLon)

\* Character codes: " " is below the alphabet of the encoding, "?" and "@"
\* end a value (0 and 1), "_" and "`" continue it
Chars == {32, 63, 64, 95, 96}
Polylines == UNION { [1..n -> Chars] : n \in 0..MaxPolylineLength }

\* What axios.get does: it throws (network error, timeout, HTTP error), or
\* resolves with a status that is not OK, with no route, with a route
\* without polyline (polyline <<>>), or with an encoded polyline
Responses ==
  { [kind |-> k, polyline |-> <<>>] : k \in {"throws", "status", "noRoute"} }
  \cup { [kind |-> "ok", polyline |-> e] : e \in Polylines }

Requests ==
  { [kind |-> "getRouteFromGoogle", apiKey |-> k, response |-> r,
     encoded |-> r.polyline] : k \in BOOLEAN, r \in Responses }
  \cup { [kind |-> "decodePolyline", apiKey |-> TRUE,
          response |-> [kind |-> "none", polyline |-> <<>>], encoded |-> e] :
         e \in Polylines }

\* A call of getRouteFromGoogle from Bus B to the destination returns
getRouteFromGoogleCall ==
  /\ request.kind = "getRouteFromGoogle" /\ ~reply.done
  /\ reply' = [done |-> TRUE, threw |-> FALSE,
               value |-> getRouteFromGoogle(request.apiKey, request.response,
                                            Moving.lat.v, Moving.lon.v,
                                            DEFAULT_DESTINATION.lat, DEFAULT_DESTINATION.lon)]
  /\ UNCHANGED <<serverVars, now, feed, busState, updateLog, request, dummyBus, prediction>>

\* A call of index.js's decodePolyline returns
decodePolylineCall ==
  /\ request.kind = "decodePolyline" /\ ~reply.done
  /\ reply' = [done |-> TRUE, threw |-> FALSE, value |-> decodePolyline(request.encoded)]
  /\ UNCHANGED <<serverVars, now, feed, busState, updateLog, request, dummyBus, prediction>>

-----------------------------------------------------------------------------
(* utils/dummyGPS.js: the simulated vehicle of USE_DUMMY_GPS, and the      *)
(* polling loop of server A fed by it.  The route START -> DESTINATION,    *)
(* 5770.7 m by the haversine formula, is laid on the destination's         *)
(* meridian: START is 5190 units of 1e-5 degree north of DESTINATION.      *)
(* BUS_DUMMY_001 is vehicle "b1".  Speeds are carried in whole km/h.       *)

\* dummyGPS.js:9
START == [lat |-> DESTINATION.lat + 5190, lng |-> DESTINATION.lng]
\* dummyGPS.js:11
UPDATE_SEC == 10
\* dummyGPS.js:14-15
totalDistance == distanceMeters(START, DESTINATION)
TARGET_TIME_SEC == 10 * 60

\* dummyGPS.js:18-24: the vehicle stands at START when the module is loaded
InitialDummyBus == [lat |-> START.lat, lng |-> START.lng, lastUpdate |-> BootTime]

\* dummyGPS.js:61  0.7 + Math.random() * 0.6, in percent: the slowest and
\* the fastest traffic
TrafficFactors == {70, 129}

\* dummyGPS.js:75  (Math.random() - 0.5) * 0.00003 lies within 1.5e-5 degrees
GpsNoise == {-1, 1}

\* A moveTowards that does not stop at its target
moveTowardsOvershooting(from, to, meters) ==
  LET dist == distanceMeters(from, to)
  IN IF dist = 0 THEN [lat |-> to.lat - meters \div 1112, lng |-> to.lng]
     ELSE [lat |-> from.lat + MulDiv(to.lat - from.lat, meters, dist),
           lng |-> from.lng + MulDiv(to.lng - from.lng, meters, dist)]

\* dummyGPS.js:42-51, with `meters` in millimetres
moveTowards(from, to, meters) ==
  LET dist == distanceMeters(from, to)
  IN IF dist = 0 \/ meters >= dist THEN to
     ELSE [lat |-> from.lat + MulDiv(to.lat - from.lat, meters, dist),
           lng |-> from.lng + MulDiv(to.lng - from.lng, meters, dist)]

\* dummyGPS.js:53-85: the vehicle after the call and the device returned.
\* speedKmh / 3.6 * elapsed is totalDistance * trafficFactor * elapsed /
\* TARGET_TIME_SEC.
getDummyDevice(bus, t, trafficFactor, latNoise) ==
  LET elapsed == Max(UPDATE_SEC, (t - bus.lastUpdate) \div 1000)
      speedKmh == MulDiv(totalDistance, 6 * trafficFactor, 1000000) \div 100
      distance == MulDiv(totalDistance, trafficFactor * elapsed, 100 * TARGET_TIME_SEC)
      next == moveTowards([lat |-> bus.lat, lng |-> bus.lng], DESTINATION, distance)
  IN [bus |-> [lat |-> next.lat, lng |-> next.lng, lastUpdate |-> t],
      device |-> Device("b1", Num(next.lat + latNoise), Num(next.lng), speedKmh, t)]

\* index.js:311-362 with USE_DUMMY_GPS: a timer tick; the device list is the
\* one device of getDummyDevice.  The provider answers within the polling
\* period: no request is outstanding at a tick.
fetchAndBroadcastDummy ==
  /\ variant = VariantA
  /\ feed = "dummy"
  /\ cycleCount < MaxDummyCycles
  /\ \A c \in 1..MaxInflight : cycles[c] = IdleCycle
  /\ \E trafficFactor \in TrafficFactors : \E latNoise \in GpsNoise :
       LET t == now + POLL_INTERVAL_MS
           id == cycleCount + 1
           dummy == getDummyDevice(dummyBus, t, trafficFactor, latNoise)
           calls == <<computeBusETA(dummy.device, etaCache["b1"], t)>>
       IN /\ now' = t
          /\ dummyBus' = dummy.bus
          /\ cycleCount' = id
          /\ etaCache' = Written(etaCache, calls)
          /\ lastRun' = Completed(lastRun, id, calls)
          /\ refreshedAt' = Refreshed(refreshedAt, calls)
          /\ arrivedAt' = Arrived(arrivedAt, calls)
          /\ IF AllDone(calls)
               THEN /\ emitted' = EmissionA(id, calls)
                    /\ cycles' = cycles
               ELSE /\ emitted' = emitted
                    /\ cycles' = [cycles EXCEPT ![FreeSlot] =
                                    [id |-> id, kind |-> "timer", calls |-> calls]]
  /\ UNCHANGED <<busState, updateLog, request, reply, prediction>>
  /\ UNCHANGED <<variant, notificationSubscriptions, googleApiCache, latestDevices, MOTO_STOP_COUNT, feed,
                 lastFetchedAt, lastFetchError>>

-----------------------------------------------------------------------------
(* Specifications *)

NoRequest == [kind |-> "none"]
NoReply == [done |-> FALSE]

InitUtils ==
  /\ busState = BusSmoothingState("b1")
  /\ updateLog = NoUpdates
  /\ request = NoRequest
  /\ reply = NoReply
  /\ dummyBus = InitialDummyBus
  /\ prediction = NoPrediction

\* index.js:60, 1030-1036: the servers as built, before the first cycle
InitServer ==
  /\ etaCache = [b \in Bus |-> EmptyEntryA]
  /\ googleApiCache = [b \in Bus |-> EmptyEntryB]
  /\ latestDevices = <<>>
  /\ lastFetchedAt = 0
  /\ lastFetchError = FALSE
  /\ cycles = [c \in 1..MaxInflight |-> IdleCycle]
  /\ cycleCount = 0
  /\ lastRun = [b \in Bus |-> NoRun]
  /\ refreshedAt = [b \in Bus |-> 0]
  /\ arrivedAt = [b \in Bus |-> 0]
  /\ emitted = NoEmission
  /\ notificationSubscriptions = [b \in Bus |-> <<>>]

InitCommon ==
  /\ feed \in Feeds
  /\ now = BootTime
  /\ InitServer
  /\ InitUtils

InitA ==
  /\ variant = VariantA
  /\ MOTO_STOP_COUNT = Undefined
  /\ InitCommon

\* process.env.MOTO_STOP_COUNT is unset, or a numeric string
InitB ==
  /\ variant = VariantB
  /\ MOTO_STOP_COUNT \in {Undefined, Num(2)}
  /\ InitCommon

Init == InitA \/ InitB
Next == NextA \/ NextB

\* A process that only drives utils/smoothing.js: the servers stay as built
Library == "utils"
InitSmoothing ==
  /\ variant = Library
  /\ MOTO_STOP_COUNT = Undefined
  /\ feed \in SmoothingFeeds
  /\ now = BootTime
  /\ InitServer
  /\ InitUtils
NextSmoothing == updateCall \/ predictPositionCall
SpecSmoothing == InitSmoothing /\ [][NextSmoothing]_vars

\* A process that only calls utils/googleMaps.js and decodePolyline
InitGoogleMaps ==
  /\ variant = Library
  /\ MOTO_STOP_COUNT = Undefined
  /\ feed = "none"
  /\ now = BootTime
  /\ InitServer
  /\ busState = BusSmoothingState("b1")
  /\ updateLog = NoUpdates
  /\ request \in Requests
  /\ reply = NoReply
  /\ dummyBus = InitialDummyBus
  /\ prediction = NoPrediction
NextGoogleMaps == getRouteFromGoogleCall \/ decodePolylineCall
SpecGoogleMaps == InitGoogleMaps /\ [][NextGoogleMaps]_vars

\* Server A with USE_DUMMY_GPS.  setInterval (index.js:370) fires the tick
\* for as long as the process runs, and a request to the provider settles
\* (index.js:132-161).  TimerFires is what a fetchAndBroadcastDummy step
\* does to cycleCount and RequestSettles what a getGoogleRouteDataReturns
\* step does to the one-call cycles of this mode, under the same guards, so
\* the two conditions are weak fairness of the two actions.
TimerFires ==
  /\ cycleCount < MaxDummyCycles
  /\ \A c \in 1..MaxInflight : cycles[c] = IdleCycle
  /\ cycleCount' = cycleCount + 1
RequestSettles ==
  \E c \in 1..MaxInflight :
    cycles[c] # IdleCycle /\ cycles' = [cycles EXCEPT ![c] = IdleCycle]
InitDummy ==
  /\ variant = VariantA
  /\ MOTO_STOP_COUNT = Undefined
  /\ feed = "dummy"
  /\ now = BootTime
  /\ InitServer
  /\ InitUtils
NextDummy == fetchAndBroadcastDummy \/ getGoogleRouteDataReturns
SpecDummy ==
  /\ InitDummy /\ [][NextDummy]_vars
  /\ WF_cycleCount(TimerFires) /\ WF_cycles(RequestSettles)

\* Server B with clients that register and unregister for notifications
InitNotifications ==
  /\ variant = VariantB
  /\ MOTO_STOP_COUNT = Num(2)
  /\ feed = "alerts"
  /\ now = BootTime
  /\ InitServer
  /\ InitUtils
NextNotifications ==
  \/ NextB
  \/ \E body \in Bodies : registerNotification(body)
  \/ \E body \in Bodies : unregisterNotification(body)
SpecNotifications == InitNotifications /\ [][NextNotifications]_vars

SpecA == InitA /\ [][NextA]_vars
SpecB == InitB /\ [][NextB]_vars
Spec == Init /\ [][Next]_vars

-----------------------------------------------------------------------------
(* Properties.  A "run" of a vehicle is its last returned call,            *)
(* lastRun[b].call; the fields read below exist in the payloads and cache  *)
(* entries of both servers under different names.                          *)

Ran(b) == lastRun[b].cycle > 0
Returns(b) == lastRun'[b] # lastRun[b]
StatusOf(payload) == IF variant = VariantA THEN payload.status ELSE payload.etaStatus
CachedEtaOf(entry) == IF variant = VariantA THEN entry.etaSeconds ELSE entry.eta
CachedAtOf(entry) == IF variant = VariantA THEN entry.lastEtaUpdate ELSE entry.etaLastUpdate
CacheEntry(b) == IF variant = VariantA THEN etaCache[b] ELSE googleApiCache[b]
PendingCalls ==
  { call \in UNION { {cycles[c].calls[i] : i \in 1..Len(cycles[c].calls)} :
                      c \in 1..MaxInflight } : Pending(call) }

\* The values an ETA derived from a cached value e, read elapsed ms after it
\* was stored, may take: e itself or e counted down, with or without the
\* dwell buffer of the remaining stops
DerivedFrom(e, elapsed) ==
  LET raw == {e, Max(0, e - elapsed \div 1000)}
      stops == IF IsNumber(MOTO_STOP_COUNT) THEN MOTO_STOP_COUNT.v ELSE 0
  IN {Num(x) : x \in raw} \cup {Num(x + stops * DWELL_TIME_PER_STOP) : x \in raw}

\* C1: when a run's ETA refresh fails and the vehicle's cache entry holds an
\* ETA, the run's payload carries a non-null ETA derived from that cached
\* value (possibly counted down); a payload that is not offline carries a
\* null ETA only if the cache entry holds no ETA.
C1_FailedRefreshFallsBackToCache ==
  \A b \in Bus :
    Ran(b) /\ lastRun[b].call.payload # NoPayload =>
      LET run == lastRun[b].call
          cachedEta == CachedEtaOf(run.cached)
      IN /\ run.outcome = "failed" /\ IsNumber(cachedEta) =>
              /\ run.payload.eta # Null
              /\ run.payload.etaSeconds \in
                   DerivedFrom(cachedEta.v, run.now - CachedAtOf(run.cached))
         /\ StatusOf(run.payload) # "offline" /\ run.payload.eta = Null =>
              ~IsNumber(cachedEta)

\* C2: a run whose ETA request failed leaves a cached non-null ETA as it
\* was, and a fallback path never replaces a cached path.
C2_FailedResultKeepsCache ==
  [][\A b \in Bus :
       Returns(b) =>
         /\ lastRun'[b].call.outcome = "failed" /\ IsNumber(CachedEtaOf(CacheEntry(b))) =>
              CachedEtaOf(CacheEntry(b))' = CachedEtaOf(CacheEntry(b))
         /\ CacheEntry(b).route.t = "array" /\ CacheEntry(b)'.route = Arr(FallbackRoute) =>
              CacheEntry(b)'.route = CacheEntry(b).route]_vars

\* A call for vehicle b is awaiting a provider response
InFlight(b) == \E call \in PendingCalls : call.device.device_id = b
\* The cycle started in this step runs a call for vehicle b
StartsCallFor(b) ==
  /\ cycleCount' = cycleCount + 1
  /\ \/ lastRun'[b].cycle = cycleCount'
     \/ \E c \in 1..MaxInflight :
          /\ cycles'[c].id = cycleCount'
          /\ \E i \in 1..Len(cycles'[c].calls) : cycles'[c].calls[i].device.device_id = b

\* C3: no cycle starts processing a vehicle while an earlier cycle's call
\* for that vehicle is still awaiting a provider response.
C3_NoConcurrentCyclesPerVehicle ==
  [][\A b \in Bus : InFlight(b) => ~StartsCallFor(b)]_vars

\* C4: a payload that is already computed is not held back by another
\* vehicle's pending provider call: no cycle that still awaits a provider
\* response holds the returned payload of another vehicle.
C4_SlowCallDoesNotBlockOthers ==
  \A c \in 1..MaxInflight :
    \A i \in 1..Len(cycles[c].calls) :
      cycles[c].calls[i].pc = "done" => cycles[c].calls[i].payload = NoPayload

\* Two stationary fixes of one vehicle less than 50 m apart
StationaryPair(first, second) ==
  /\ first.last_speed = 0 /\ second.last_speed = 0
  /\ IsNumber(first.last_lat) /\ IsNumber(second.last_lat)
  /\ IsNumber(first.last_lon) /\ IsNumber(second.last_lon)
  /\ Abs(second.last_lat.v - first.last_lat.v) * 1112 < 50 * 1000
  /\ first.last_lon = second.last_lon
RefreshInterval == IF variant = VariantA THEN ETA_REFRESH_MS ELSE GOOGLE_ETA_CACHE_MS

\* C5: when a stationary vehicle's run, tracked with a fresh fix, is followed
\* within the refresh interval by a run on a stationary fix less than 50 m
\* away, the second run makes no provider call and returns the etaSeconds of
\* the first, not counted down.
C5_StationaryFixKeepsEta ==
  [][\A b \in Bus :
       /\ Returns(b) /\ Ran(b)
       /\ lastRun[b].call.outcome \in {"refreshed", "countdown"}
       /\ StationaryPair(lastRun[b].call.device, lastRun'[b].call.device)
       /\ lastRun'[b].call.now > lastRun[b].call.now
       /\ lastRun'[b].call.now - lastRun[b].call.now < RefreshInterval
       /\ lastRun'[b].call.now - lastRun'[b].call.device.last_update <= STALE_DEVICE_MS
       => /\ lastRun'[b].call.calls = 0
          /\ lastRun'[b].call.payload # NoPayload
          /\ lastRun'[b].call.payload.etaSeconds = lastRun[b].call.payload.etaSeconds]_vars

\* What a run's fix is, stated on the raw device record
NumericFix(device) == IsNumber(device.last_lat) /\ IsNumber(device.last_lon)
StaleFix(call) == call.now - call.device.last_update > 10 * 60 * 1000
FixAtDestination(device) ==
  /\ NumericFix(device)
  /\ device.last_lon.v = DESTINATION.lng
  /\ Abs(device.last_lat.v - DESTINATION.lat) * 1112 <= 50 * 1000

\* C6: a run on a fix with numeric coordinates that is more than 10 minutes
\* old returns a payload with status offline, a null ETA and an empty path.
C6_StaleFixIsOffline ==
  \A b \in Bus :
    Ran(b) /\ NumericFix(lastRun[b].call.device) /\ StaleFix(lastRun[b].call) =>
      /\ lastRun[b].call.payload # NoPayload
      /\ StatusOf(lastRun[b].call.payload) = "offline"
      /\ lastRun[b].call.payload.eta = Null
      /\ lastRun[b].call.payload.route = Arr(<<>>)

\* C7: a run on a stale fix leaves the vehicle's cache entry (ETA, path,
\* refresh timestamp) as it was.
C7_OfflineLeavesCacheUntouched ==
  [][\A b \in Bus :
       Returns(b) /\ StaleFix(lastRun'[b].call) =>
         /\ etaCache'[b] = etaCache[b]
         /\ googleApiCache'[b] = googleApiCache[b]]_vars

\* A stale fix was classified offline while the cache held a refreshed entry
C7_Witness ==
  \E b \in Bus :
    /\ Ran(b) /\ StaleFix(lastRun[b].call)
    /\ lastRun[b].call.outcome = "offline"
    /\ CachedAtOf(CacheEntry(b)) # 0
    /\ IsNumber(CachedEtaOf(CacheEntry(b)))

\* C8: no provider call is made for a stale fix or for a fix within the
\* arrival radius: neither a pending call nor a returned run that called the
\* provider has such a fix.
C8_NoProviderCallWhenOfflineOrArrived ==
  /\ \A call \in PendingCalls : ~StaleFix(call) /\ ~FixAtDestination(call.device)
  /\ \A b \in Bus :
       Ran(b) /\ lastRun[b].call.calls > 0 =>
         ~StaleFix(lastRun[b].call) /\ ~FixAtDestination(lastRun[b].call.device)

C10_NullExactlyForMissingCoordinates ==
  \A b \in Bus :
    Ran(b) => (lastRun[b].call.payload = NoPayload <=> ~NumericFix(lastRun[b].call.device))

\* C11: a run on a fix with numeric coordinates returns a payload whose
\* etaSeconds is a number >= 0 (never NaN) and whose speed is >= 0.
C11_ValidFixYieldsNonNegativeEta ==
  \A b \in Bus :
    Ran(b) /\ NumericFix(lastRun[b].call.device) =>
      /\ lastRun[b].call.payload # NoPayload
      /\ IsNumber(lastRun[b].call.payload.etaSeconds)
      /\ lastRun[b].call.payload.etaSeconds.v >= 0
      /\ lastRun[b].call.payload.speed >= 0

\* A run that tracked the vehicle, and a run that asked the provider for an ETA
Tracked(call) == call.outcome \in {"refreshed", "failed", "countdown", "route"}
EtaRequested(call) == call.outcome \in {"refreshed", "failed"}
\* The run `second` read the cache entry that the successful refresh `first` wrote
ReadsRefreshOf(first, second) ==
  /\ first.outcome = "refreshed" /\ first.write
  /\ second.cached = first.entry
  /\ NumericFix(first.device) /\ NumericFix(second.device)
\* Millimetres between the fixes of two runs
MovedBetween(first, second) ==
  Abs(second.device.last_lat.v - first.device.last_lat.v) * 1112

\* C12: for a tracked vehicle whose cache entry comes from a successful
\* refresh and that is not covered by the stationary exception, a run asks
\* the provider for an ETA if and only if the refresh interval has elapsed
\* since that refresh or the vehicle has moved more than 100 m since it.
C12_RefreshIffIntervalOrMovement ==
  [][\A b \in Bus :
       /\ Returns(b) /\ Ran(b)
       /\ ReadsRefreshOf(lastRun[b].call, lastRun'[b].call)
       /\ Tracked(lastRun'[b].call)
       /\ ~(/\ lastRun'[b].call.device.last_speed = 0
            /\ MovedBetween(lastRun[b].call, lastRun'[b].call) < 50 * 1000)
       => (EtaRequested(lastRun'[b].call) <=>
             \/ lastRun'[b].call.now - lastRun[b].call.now >= RefreshInterval
             \/ MovedBetween(lastRun[b].call, lastRun'[b].call) > 100 * 1000)]_vars

\* A run of mapDeviceToSocketPayload on a stationary fix less than 50 m from
\* the position of the last refresh, with an ETA refresh on record
StationaryRun(call) ==
  /\ Tracked(call) /\ NumericFix(call.device)
  /\ call.device.last_speed = 0
  /\ call.cached.etaLastUpdate # 0
  /\ call.cached.lastPosition.set
  /\ Abs(call.device.last_lat.v - call.cached.lastPosition.lat) * 1112 < 50 * 1000
CacheAge(call) == call.now - call.cached.etaLastUpdate

C14_MovingEtaCountsDown ==
  \A b \in Bus :
    /\ Ran(b) /\ Tracked(lastRun[b].call) /\ ~EtaRequested(lastRun[b].call)
    /\ lastRun[b].call.device.last_speed > 0
    /\ IsNumber(CachedEtaOf(lastRun[b].call.cached))
    /\ CachedAtOf(lastRun[b].call.cached) # 0
    => LET run == lastRun[b].call
           adjusted == Max(0, CachedEtaOf(run.cached).v
                                - (run.now - CachedAtOf(run.cached)) \div 1000)
       IN run.payload.etaSeconds \in {Num(adjusted), FinalETASeconds(Num(adjusted))}

\* The run read no cache entry for its vehicle
ReadEmptyCache(call) ==
  CachedAtOf(call.cached) = 0 /\ ~IsNumber(CachedEtaOf(call.cached))
\* The values etaSeconds may take when it is taken from a provider result e:
\* e itself, or e with the dwell buffer of the remaining stops
TakenFrom(e) ==
  {Num(e)} \cup
  (IF IsNumber(MOTO_STOP_COUNT)
     THEN {Num(e + MOTO_STOP_COUNT.v * DWELL_TIME_PER_STOP)} ELSE {})

\* C15: a run on a fresh fix outside the arrival radius that finds no cache
\* entry asks the provider for an ETA, and when the provider answers, the
\* payload is a tracking payload with a non-empty path and the etaSeconds of
\* that answer.
C15_EmptyCacheForcesRefresh ==
  \A b \in Bus :
    /\ Ran(b) /\ ReadEmptyCache(lastRun[b].call)
    /\ NumericFix(lastRun[b].call.device)
    /\ ~StaleFix(lastRun[b].call) /\ ~FixAtDestination(lastRun[b].call.device)
    => LET run == lastRun[b].call
       IN /\ EtaRequested(run)
          /\ run.outcome = "refreshed" =>
               /\ StatusOf(run.payload) \notin {"offline", "arrived"}
               /\ run.payload.route.t = "array" /\ run.payload.route.v # <<>>
               /\ run.payload.etaSeconds \in TakenFrom(CachedEtaOf(run.entry).v)

\* The cycle started in this step leaves a call for vehicle b awaiting the
\* provider
StartsProviderCallFor(b) ==
  /\ cycleCount' = cycleCount + 1
  /\ \E c \in 1..MaxInflight :
       /\ cycles'[c].id = cycleCount'
       /\ \E i \in 1..Len(cycles'[c].calls) :
            /\ cycles'[c].calls[i].device.device_id = b
            /\ Pending(cycles'[c].calls[i])

\* C16: once a refresh of a vehicle has succeeded with refresh timestamp t,
\* no provider call for that vehicle is started before t + ETA_REFRESH_MS.
C16_ProviderCallsRateLimited ==
  [][\A b \in Bus :
       refreshedAt[b] # 0 /\ StartsProviderCallFor(b) =>
         now' >= refreshedAt[b] + ETA_REFRESH_MS]_vars

\* A timer tick that ran no call: its fetch failed
FailedTick ==
  /\ cycleCount' = cycleCount + 1
  /\ lastRun' = lastRun
  /\ cycles' = cycles
\* A timer tick whose fetch succeeds
NormalTick == fetchAndBroadcast \/ fetchLiveDevices

\* C17: a tick whose fleet fetch fails emits nothing and changes no cache
\* entry and no device list, and a tick with a successful fetch can run
\* afterwards as at any other time.
C17_FailedFetchSkipsCycle ==
  /\ [][FailedTick =>
          /\ emitted' = emitted
          /\ etaCache' = etaCache /\ googleApiCache' = googleApiCache
          /\ refreshedAt' = refreshedAt
          /\ latestDevices' = latestDevices /\ lastFetchedAt' = lastFetchedAt]_vars
  /\ [](cycleCount < MaxCycles /\ (\E c \in 1..MaxInflight : cycles[c] = IdleCycle)
          => ENABLED NormalTick)

\* The last tick failed after an earlier cycle had emitted, and the earlier
\* emission is still the last one
C17_Witness ==
  /\ cycleCount >= 2
  /\ emitted # NoEmission /\ emitted.cycle < cycleCount
  /\ \A b \in Bus : lastRun[b].cycle < cycleCount
  /\ \A c \in 1..MaxInflight : cycles[c] = IdleCycle
  /\ \E b \in Bus : Ran(b) /\ CachedAtOf(CacheEntry(b)) # 0

\* The status the comparison of a new ETA with the previously cached one gives
ExpectedStatus(newEta, previous) ==
  IF IsNumber(previous) /\ newEta - previous.v >= 90 THEN "traffic"
  ELSE IF IsNumber(previous) /\ previous.v - newEta > 60 THEN "faster"
  ELSE "normal"

\* C18: the status of a moving vehicle's payload after a successful refresh
\* compares the refreshed ETA with the ETA the cache held before: traffic for
\* an increase of at least 90 s, faster for a decrease of more than 60 s,
\* normal otherwise and when the cache held none.
C18_StatusComparesWithCachedEta ==
  \A b \in Bus :
    /\ Ran(b) /\ lastRun[b].call.outcome = "refreshed"
    /\ lastRun[b].call.device.last_speed > 0
    => StatusOf(lastRun[b].call.payload) =
         ExpectedStatus(CachedEtaOf(lastRun[b].call.entry).v,
                        CachedEtaOf(lastRun[b].call.cached))

\* The fix of run `second` is stationary and at the position of the fix of
\* the vehicle's run before, `first`, and within 10 m of the position the
\* cache recorded at the last refresh, where the cache records one
StandingStill(first, second) ==
  /\ NumericFix(first.device) /\ NumericFix(second.device)
  /\ second.device.last_speed = 0
  /\ MovedBetween(first, second) = 0
  /\ variant = VariantB =>
       /\ second.cached.lastPosition.set
       /\ Abs(second.device.last_lat.v - second.cached.lastPosition.lat) * 1112 < 10 * 1000

\* C19: a tracked vehicle that is stationary and has not moved reports
\* status stopped, whether or not the run refreshed the ETA.
C19_StationaryReportsStopped ==
  [][\A b \in Bus :
       /\ Returns(b) /\ Ran(b)
       /\ Tracked(lastRun'[b].call)
       /\ StandingStill(lastRun[b].call, lastRun'[b].call)
       => StatusOf(lastRun'[b].call.payload) = "stopped"]_vars

\* The cache holds an entry for vehicle b
HasEntry(b) ==
  IF variant = VariantA THEN etaCache[b] # EmptyEntryA ELSE googleApiCache[b] # EmptyEntryB
\* A fix of vehicle b has been processed into a payload
Processed(b) == Ran(b) /\ lastRun[b].call.payload # NoPayload

\* C20: every vehicle whose fix has been processed has its cache entry (the
\* cache, keyed by vehicle, holds at most one), and an entry, once created,
\* is never deleted.
C20_OneCacheEntryPerVehicle ==
  /\ [](\A b \in Bus : Processed(b) => HasEntry(b))
  /\ [][\A b \in Bus : HasEntry(b) => HasEntry(b)']_vars

\* The ETA that update() has left in the smoothing state: the value it
\* reports (eta) and the average it keeps (etaEMA)
HasEtaState == busState.etaState # Null
SmoothedEtaNonNegative ==
  HasEtaState => busState.etaState.etaEMA >= 0 /\ busState.etaState.eta >= 0

\* C21: in every reachable state the ETA stored in a vehicle's cache entry
\* is a number >= 0, and so is the etaEMA of the smoothing state.
C21_StoredEtaNonNegative ==
  /\ \A b \in Bus :
       HasEntry(b) => IsNumber(CachedEtaOf(CacheEntry(b))) /\ CachedEtaOf(CacheEntry(b)).v >= 0
  /\ SmoothedEtaNonNegative

\* The last n elements of a sequence
LastOf(s, n) == SubSeq(s, Len(s) - Min(n, Len(s)) + 1, Len(s))

\* C22: after any number of update() calls the history holds at most 5
\* samples, in the order they were taken (timestamps never decreasing: two
\* calls within one millisecond read the same Date.now()), and they are the
\* most recent samples update() has pushed.
C22_HistoryHoldsLastFiveSamples ==
  /\ Len(busState.history) <= 5
  /\ \A i, j \in 1..Len(busState.history) :
       i < j => busState.history[i].timestamp <= busState.history[j].timestamp
  /\ busState.history = LastOf(updateLog.pushed, 5)

\* Seven samples were pushed, so two have been evicted
C22_Witness ==
  /\ Len(updateLog.pushed) = MaxUpdates
  /\ Len(busState.history) = 5
  /\ busState.history[1] = updateLog.pushed[3]

\* This step is an update() call that smoothed a valid raw ETA (a number
\* >= 0) while the previous smoothed ETA was positive
SmoothsValidEta ==
  /\ updateLog'.calls = updateLog.calls + 1
  /\ ~updateLog'.threw
  /\ HasEtaState /\ busState.etaState.eta > 0
  /\ IsNumber(updateLog'.returned.rawETA) /\ updateLog'.returned.rawETA.v >= 0

\* The smoothed ETA after this step is at least (100 - down)% and at most
\* (100 + up)% of the one before
WithinBand(down, up) ==
  /\ 100 * busState'.etaState.eta >= (100 - down) * busState.etaState.eta
  /\ 100 * busState'.etaState.eta <= (100 + up) * busState.etaState.eta

\* C23: between consecutive updates with a valid raw ETA and a positive
\* previous smoothed ETA, the smoothed ETA falls by at most 5% and rises by
\* at most 2% of the previous value.
C23_SmoothedEtaWithinBand == [][SmoothsValidEta => WithinBand(5, 2)]_vars

\* What smoothETA's final check (smoothing.js:216-226) does bound: 5% either way
SmoothedEtaWithinFivePercent == [][SmoothsValidEta => WithinBand(5, 5)]_vars

\* The route request failed: no API key, axios threw, the status was not OK,
\* or the response held no route or no polyline
RouteRequestFailed ==
  /\ request.kind = "getRouteFromGoogle"
  /\ ~request.apiKey \/ request.response.kind # "ok" \/ request.response.polyline = <<>>

\* C24: getRouteFromGoogle never throws, and on every failure it returns the
\* two points origin and destination.
C24_RouteFallsBackToTwoPoints ==
  (reply.done /\ request.kind = "getRouteFromGoogle") =>
    /\ ~reply.threw
    /\ RouteRequestFailed =>
         reply.value = TwoPoints(Moving.lat.v, Moving.lon.v,
                                 DEFAULT_DESTINATION.lat, DEFAULT_DESTINATION.lon)

\* An encoded polyline is well formed when every character is of the
\* encoding's alphabet (codes 63..126), the last one ends a value, and the
\* values come in pairs
EndsValue(c) == c >= 63 /\ c < 95
Values(encoded) == Cardinality({ i \in 1..Len(encoded) : EndsValue(encoded[i]) })
WellFormed(encoded) ==
  /\ \A i \in 1..Len(encoded) : encoded[i] >= 63
  /\ encoded # <<>> => EndsValue(encoded[Len(encoded)])
  /\ Values(encoded) % 2 = 0

\* C25: decoding an empty or malformed polyline does not fail and yields
\* the empty sequence.
C25_MalformedPolylineDecodesToEmpty ==
  (reply.done /\ request.kind = "decodePolyline"
     /\ (request.encoded = <<>> \/ ~WellFormed(request.encoded))) =>
    ~reply.threw /\ reply.value = <<>>

\* This step emits a cycle's events
Emits == emitted' # emitted
\* The payloads that the cycle emitting in this step has produced, as far as
\* lastRun still holds them (a later cycle may have replaced a vehicle's run)
ProducedBy(id) ==
  { lastRun'[b].call.payload : b \in { v \in Bus : lastRun'[v].cycle = id } } \ {NoPayload}
Occurrences(s, x) == Cardinality({ i \in 1..Len(s) : s[i] = x })

\* C26: a cycle's emission carries every payload the cycle produced exactly
\* once as a route-update event, and its snapshot counts and lists exactly
\* the payloads emitted as route-update events.
C26_EveryPayloadEmittedOnceAndInSnapshot ==
  /\ [](emitted # NoEmission =>
          /\ emitted.snapshot.count = Len(emitted.updates)
          /\ emitted.snapshot.devices = emitted.updates)
  /\ [][Emits => \A p \in ProducedBy(emitted'.cycle) : Occurrences(emitted'.updates, p) = 1]_vars

\* The call awaits a response that carries the path: the Directions request
\* of getGoogleRouteData or of getRouteFromGoogle
AwaitsPath(call) == call.pc \in {"awaitGoogle", "awaitRoute"}
\* When the path of a cache entry was stored (0: never, or cleared on
\* arrival); computeBusETA stores the path together with the ETA
RouteAtOf(entry) ==
  IF variant = VariantB THEN entry.routeLastUpdate
  ELSE IF entry.route.t = "array" /\ entry.route.v # <<>> THEN entry.lastEtaUpdate ELSE 0

\* C27: a path request is in flight for a vehicle only if the cache entry
\* its call read had no path timestamp or one older than the route interval
\* of 6 hours.
C27_PathRequestedOnlyPastRouteInterval ==
  \A call \in PendingCalls :
    AwaitsPath(call) =>
      \/ RouteAtOf(call.cached) = 0
      \/ call.now - RouteAtOf(call.cached) > GOOGLE_ROUTE_CACHE_MS

\* In this step a call of a later cycle returns a tracking payload for
\* vehicle b, whose previous run returned a tracking payload too
NextTrackingPayload(b) ==
  /\ Ran(b) /\ Returns(b)
  /\ lastRun'[b].cycle > lastRun[b].cycle
  /\ Tracked(lastRun[b].call) /\ Tracked(lastRun'[b].call)

\* C28: from one tracking payload of a vehicle to the next, etaSeconds does
\* not increase unless the later run's provider call succeeded.
C28_EtaRisesOnlyOnSuccessfulRefresh ==
  [][\A b \in Bus :
       NextTrackingPayload(b) /\ lastRun'[b].call.outcome # "refreshed" =>
         lastRun'[b].call.payload.etaSeconds.v <= lastRun[b].call.payload.etaSeconds.v]_vars

\* C29: the lastEtaUpdate stored in a vehicle's cache entry never decreases,
\* whatever the overlap of cycles and the order of the provider's responses.
C29_RefreshTimestampNeverDecreases ==
  [][\A b \in Bus : etaCache'[b].lastEtaUpdate >= etaCache[b].lastEtaUpdate]_vars

\* Vehicle b's last returned run was a failed refresh, and its cache entry is
\* still the one that run read
FailedLast(b) ==
  /\ Ran(b) /\ lastRun[b].call.outcome = "failed"
  /\ etaCache[b] = lastRun[b].call.cached
\* The call started for b in this step returned at once because the fix is
\* invalid, stale or at the destination: branches taken before the refresh
\* decision
ClassifiedAtOnce(b) ==
  /\ lastRun'[b].cycle = cycleCount'
  /\ lastRun'[b].call.outcome \in {"invalid", "offline", "arrived"}

\* C30: in computeBusETA a refresh that fails leaves the vehicle's cache
\* entry as it is, and as long as the entry stays so, every later cycle that
\* tracks the vehicle calls the provider again.
C30_FailedRefreshIsRetried ==
  /\ [][\A b \in Bus :
          Returns(b) /\ lastRun'[b].call.outcome = "failed" => etaCache'[b] = etaCache[b]]_vars
  /\ [][\A b \in Bus :
          FailedLast(b) /\ StartsCallFor(b) =>
            StartsProviderCallFor(b) \/ ClassifiedAtOnce(b)]_vars

\* A retry is in flight: a later call for b awaits the provider on the entry
\* that the failed run read
C30_Witness ==
  \E b \in Bus :
    /\ FailedLast(b)
    /\ \E call \in PendingCalls :
         /\ call.device.device_id = b
         /\ call.now > lastRun[b].call.now
         /\ call.cached = lastRun[b].call.cached

\* The call read the entry an arrival wrote: ETA 0 and an empty path (the
\* provider's durations are positive)
ReadArrivalEntry(call) ==
  call.cached.etaSeconds = Num(0) /\ call.cached.route = Arr(<<>>)
\* Vehicle b's last returned run tracked a fix taken after its latest fix
\* within the arrival radius, less than ETA_REFRESH_MS later
TrackedSoonAfterArrival(b) ==
  /\ Ran(b) /\ Tracked(lastRun[b].call)
  /\ arrivedAt[b] > 0
  /\ lastRun[b].call.now > arrivedAt[b]
  /\ lastRun[b].call.now - arrivedAt[b] < ETA_REFRESH_MS
ZeroEtaAndEmptyRoute(call) ==
  /\ call.outcome = "countdown"
  /\ call.payload.etaSeconds = Num(0)
  /\ call.payload.route = Arr(<<>>)

\* C31: an arrival stores the time of its call as lastEtaUpdate; a fix of
\* the vehicle processed less than ETA_REFRESH_MS after its last arrived fix
\* causes no provider request, and its tracking payload has etaSeconds 0 and
\* an empty route.
C31_NoRequeryWithinIntervalOfArrival ==
  /\ [](\A b \in Bus : TrackedSoonAfterArrival(b) => ZeroEtaAndEmptyRoute(lastRun[b].call))
  /\ [](\A call \in PendingCalls :
          arrivedAt[call.device.device_id] > 0 /\ call.now > arrivedAt[call.device.device_id] =>
            call.now - arrivedAt[call.device.device_id] >= ETA_REFRESH_MS)
  /\ [][\A b \in Bus :
          Returns(b) /\ lastRun'[b].call.outcome = "arrived" =>
            etaCache'[b].lastEtaUpdate = lastRun'[b].call.now]_vars

\* What holds of a call that read the arrival's entry: no provider request
\* before the entry is ETA_REFRESH_MS old, and ETA 0 and an empty route
NoRequeryOnArrivalEntry ==
  /\ \A call \in PendingCalls :
       ReadArrivalEntry(call) => call.now - call.cached.lastEtaUpdate >= ETA_REFRESH_MS
  /\ \A b \in Bus :
       (Ran(b) /\ Tracked(lastRun[b].call) /\ ReadArrivalEntry(lastRun[b].call)
          /\ lastRun[b].call.now - lastRun[b].call.cached.lastEtaUpdate < ETA_REFRESH_MS) =>
         ZeroEtaAndEmptyRoute(lastRun[b].call)

\* The simulated vehicle stands on the destination
DummyAtDestination ==
  dummyBus.lat = DESTINATION.lat /\ dummyBus.lng = DESTINATION.lng
\* A timer tick of dummy-GPS mode: one getDummyDevice call
DummyTick == cycleCount' = cycleCount + 1
\* The tick's cycle has emitted one payload, with status arrived
EmitsArrived ==
  /\ emitted'.cycle = cycleCount'
  /\ Len(emitted'.updates) = 1
  /\ emitted'.updates[1].status = "arrived"
  /\ emitted'.updates[1].eta = Num(0)

UpdateReturns == updateLog'.calls = updateLog.calls + 1 /\ ~updateLog'.threw
SpeedFilterOf(self) ==
  IF self.speedState = Null THEN Null ELSE self.speedState.speedFilter
EtaFilterOf(self) ==
  IF self.etaState = Null THEN Null ELSE self.etaState.etaFilter
\* The 1-D filter `after` is the first observation's, with error covariance
\* `initial`, or a Kalman step (or no step) from `before` with Q and R
KalmanStep(before, after, initial, Q, R) ==
  IF after = Null THEN before = Null
  ELSE IF before = Null THEN after.errorCovariance = initial
  ELSE \/ after = before
       \/ after.errorCovariance = kalmanFilter1D(before, after.value, Q, R).errorCovariance
LatFilterOf(self) ==
  IF self.positionState = Null THEN Null
  ELSE [value |-> self.positionState.positionFilter.lat,
        errorCovariance |-> self.positionState.positionFilter.latError]
LngFilterOf(self) ==
  IF self.positionState = Null THEN Null
  ELSE [value |-> self.positionState.positionFilter.lng,
        errorCovariance |-> self.positionState.positionFilter.lngError]
\* Every filter of the vehicle is initialised with the error covariances
\* given (position in 1e-6, speed and ETA in thousandths) and then stepped
FiltersFollowKalman(positionInitial, initial) ==
  UpdateReturns =>
    /\ KalmanStep(LatFilterOf(busState), LatFilterOf(busState'), positionInitial, 10, 100)
    /\ KalmanStep(LngFilterOf(busState), LngFilterOf(busState'), positionInitial, 10, 100)
    /\ KalmanStep(SpeedFilterOf(busState), SpeedFilterOf(busState'), initial, 500, 2000)
    /\ KalmanStep(EtaFilterOf(busState), EtaFilterOf(busState'), initial, 1000, 15000)

\* C33: the first observation of each filtered quantity (each position
\* axis, speed, ETA) sets the filter's error covariance to 1.0, and every
\* later step updates it as the 1-D Kalman step with the quantity's Q and R.
C33_FiltersStartAtUnitCovariance == [][FiltersFollowKalman(1000000, 1000)]_vars

\* What the code does: the position axes start at 0.0001 (smoothing.js:63-64)
FiltersStartAsCoded == [][FiltersFollowKalman(100, 1000)]_vars

\* An update() call, returned or thrown: speedState is assigned before
\* anything can throw
UpdateCalled == updateLog'.calls = updateLog.calls + 1
\* The first valid sample of a quantity: its Kalman filter is created with
\* the sample's clamped value, and the EMA is that value
EmaStartsAtSample(filterBefore, filterAfter, emaAfter) ==
  (filterBefore = Null /\ filterAfter # Null) => emaAfter = filterAfter.value
\* A later valid sample: the EMA of the filter's value with weight alpha
EmaContinues(filterBefore, filterAfter, emaBefore, emaAfter, alpha) ==
  (filterBefore # Null /\ filterAfter # filterBefore) =>
    emaAfter = exponentialMovingAverage(Num(emaBefore), filterAfter.value, alpha)

\* C34: the first valid sample of speed, and of ETA, initialises the EMA to
\* the sample's clamped value, also after invalid samples; every later
\* update computes ema' = alpha * new + (1 - alpha) * ema.
C34_EmaStartsAtFirstValidSample ==
  [][UpdateCalled =>
       /\ EmaStartsAtSample(SpeedFilterOf(busState), SpeedFilterOf(busState'),
                            busState'.speedState.speedEMA)
       /\ EmaContinues(SpeedFilterOf(busState), SpeedFilterOf(busState'),
                       busState.speedState.speedEMA, busState'.speedState.speedEMA, 30)
       /\ EmaStartsAtSample(EtaFilterOf(busState), EtaFilterOf(busState'),
                            busState'.etaState.etaEMA)
       /\ EmaContinues(EtaFilterOf(busState), EtaFilterOf(busState'),
                       busState.etaState.etaEMA, busState'.etaState.etaEMA, 5)]_vars

\* What the code does for the speed: the EMA starts at the sample only on a
\* state that no invalid sample has created, and continues as the EMA
SpeedEmaStartsAtSampleOnNewState ==
  [][UpdateCalled =>
       /\ (busState.speedState = Null /\ SpeedFilterOf(busState') # Null) =>
            busState'.speedState.speedEMA = SpeedFilterOf(busState').value
       /\ (busState.speedState # Null /\ busState'.speedState # busState.speedState) =>
            busState'.speedState.speedEMA =
              exponentialMovingAverage(Num(busState.speedState.speedEMA),
                                       SpeedFilterOf(busState').value, 30)]_vars

\* C35: for any sequence of raw speeds (negative, above 120, invalid), the
\* smoothed speed is always within [0, 120] km/h.
C35_SmoothedSpeedWithinRange ==
  /\ busState.speedState # Null =>
       busState.speedState.speed >= 0 /\ busState.speedState.speed <= 120000
  /\ updateLog.returned # Null =>
       updateLog.returned.speed >= 0 /\ updateLog.returned.speed <= 120000

\* A first raw speed of 150 km/h has been smoothed to the upper limit, and
\* a later sample is below it
C35_Witness ==
  /\ feed = "speed"
  /\ Len(updateLog.pushed) >= 2
  /\ updateLog.pushed[1].speed = 120000
  /\ \E i \in 2..Len(updateLog.pushed) : updateLog.pushed[i].speed < 120000
  /\ busState.speedState.speed >= 0

\* Milliseconds between the oldest and the newest of the last three samples
ElapsedOverLastThree ==
  LET n == Len(busState.history)
  IN busState.history[n].timestamp - busState.history[Max(1, n - 2)].timestamp
IsPosition(value) == DOMAIN value = {"lat", "lng"}

\* C36: predictPosition returns null whenever fewer than 2 history samples
\* exist or no time has passed between the oldest and the newest of the
\* last 3 samples; otherwise it returns a position.
C36_PredictionNullWithoutTwoSpacedSamples ==
  prediction.called =>
    IF Len(busState.history) < 2 \/ ElapsedOverLastThree <= 0
      THEN prediction.returned = Null
      ELSE IsPosition(prediction.returned)

\* predictPosition has returned null on three samples of one millisecond
C36_Witness ==
  /\ prediction.called
  /\ Len(busState.history) >= 3
  /\ ElapsedOverLastThree = 0
  /\ prediction.returned = Null

\* predictPosition has returned a position ahead of the last sample
PredictedAhead ==
  /\ prediction.called
  /\ prediction.returned # Null
  /\ prediction.returned.lat # busState.history[Len(busState.history)].position.lat

\* An update() call that returned, whose raw ETA was null or negative (a
\* stopped vehicle without etaSeconds has the raw ETA null)
UpdateWithInvalidEta ==
  /\ UpdateReturns
  /\ updateLog'.returned.rawETA.t # "number" \/ updateLog'.returned.rawETA.v < 0
KeepsEtaState ==
  /\ busState'.etaState = busState.etaState
  /\ updateLog'.returned.eta = busState.etaState.eta

\* C37 as stated: smoothETA with an invalid raw ETA returns the previous
\* ETA smoothing state unchanged, so that update() keeps the previous
\* smoothed ETA.
C37_InvalidEtaKeepsState == [][UpdateWithInvalidEta => KeepsEtaState]_vars

\* C37, amended: with an invalid raw ETA the previous ETA smoothing state is
\* kept when there is one; a vehicle without one gets the state {eta: 0,
\* etaFilter: null, etaEMA: 0}.
C37_InvalidEtaKeepsExistingState ==
  [][UpdateWithInvalidEta =>
       IF busState.etaState = Null
         THEN /\ busState'.etaState = [eta |-> 0, etaFilter |-> Null, etaEMA |-> 0]
              /\ updateLog'.returned.eta = 0
         ELSE KeepsEtaState]_vars

\* A stopped vehicle without etaSeconds has kept its positive smoothed ETA
C37_Witness ==
  /\ feed = "eta"
  /\ updateLog.calls >= 2 /\ ~updateLog.threw
  /\ updateLog.returned.rawETA = Null
  /\ updateLog.returned.speed = 0
  /\ updateLog.returned.eta > 0
  /\ busState.etaState.eta = updateLog.returned.eta

\* The subscriptions of vehicle b with the push token, in the given map
SubscriptionsOf(subscriptions, b, pushToken) ==
  { subscriptions[b][i] : i \in { j \in 1..Len(subscriptions[b]) :
                                    subscriptions[b][j].pushToken = pushToken } }
IsNotified(subscriptions, b, pushToken) ==
  \E sub \in SubscriptionsOf(subscriptions, b, pushToken) : sub.notified
AwaitsNotification(subscriptions, b, pushToken) ==
  \E sub \in SubscriptionsOf(subscriptions, b, pushToken) : ~sub.notified
\* This step is a register (an unregister) request for the vehicle and token
Registers(b, pushToken) ==
  \E body \in Bodies :
    body.busId = b /\ body.pushToken = pushToken /\ registerNotification(body)
Unregisters(b, pushToken) ==
  \E body \in Bodies :
    body.busId = b /\ body.pushToken = pushToken /\ unregisterNotification(body)

\* C38: over any sequence of register, unregister and payload events a
\* subscription that is notified stays notified: the flag is lost only by a
\* register request for the same busId and pushToken (which resets it) or by
\* the unregister request that removes the subscription, so it turns from
\* false to true at most once per registration.
C38_NotifiedUntilRegisteredAgain ==
  [][\A b \in Bus : \A pushToken \in ExpoPushTokens :
       (IsNotified(notificationSubscriptions, b, pushToken)
          /\ ~IsNotified(notificationSubscriptions', b, pushToken)) =>
         Registers(b, pushToken) \/ Unregisters(b, pushToken)]_vars

\* A subscription is notified after the last broadcast, whose payload (an
\* ETA of 5 minutes for a notification time of 3) did not notify it
C38_Witness ==
  /\ emitted # NoEmission /\ emitted.channel = "io" /\ emitted.cycle >= 2
  /\ \E k \in 1..Len(emitted.updates) :
       /\ emitted.updates[k].eta.t = "number"
       /\ \E sub \in SubscriptionsOf(notificationSubscriptions,
                                      emitted.updates[k].busId, "t1") :
            /\ sub.notified
            /\ sub.notificationTime.t = "number"
            /\ emitted.updates[k].eta.v > sub.notificationTime.v

\* This step has broadcast a payload of vehicle b whose eta is a number of
\* at most the notification time
BroadcastsEtaWithin(b, notificationTime) ==
  /\ emitted' # emitted /\ emitted'.channel = "io"
  /\ \E k \in 1..Len(emitted'.updates) :
       /\ emitted'.updates[k].busId = b
       /\ emitted'.updates[k].eta.t = "number"
       /\ notificationTime.t = "number"
       /\ emitted'.updates[k].eta.v <= notificationTime.v
BroadcastsOffline(b) ==
  /\ emitted' # emitted /\ emitted'.channel = "io"
  /\ \E k \in 1..Len(emitted'.updates) :
       emitted'.updates[k].busId = b /\ emitted'.updates[k].eta = Null

\* C39: handleNotifications marks a subscription notified only for a
\* payload whose eta is a number of at most the subscription's
\* notificationTime; a payload with eta null (an offline vehicle) leaves
\* every subscription's notified flag unchanged.
C39_NotifiedOnlyByNumericEta ==
  [][\A b \in Bus :
       /\ \A pushToken \in ExpoPushTokens :
            \A sub \in SubscriptionsOf(notificationSubscriptions, b, pushToken) :
              (~sub.notified /\ IsNotified(notificationSubscriptions', b, pushToken)) =>
                BroadcastsEtaWithin(b, sub.notificationTime)
       /\ BroadcastsOffline(b) =>
            notificationSubscriptions'[b] = notificationSubscriptions[b]]_vars

\* What the code does: `null <= notificationTime` compares 0, so that the
\* payload of an offline vehicle notifies as an ETA of 0 minutes does
NotifiedOnlyByEtaComparedAsNumber ==
  [][\A b \in Bus : \A pushToken \in ExpoPushTokens :
       \A sub \in SubscriptionsOf(notificationSubscriptions, b, pushToken) :
         (~sub.notified /\ IsNotified(notificationSubscriptions', b, pushToken)) =>
           BroadcastsEtaWithin(b, sub.notificationTime) \/ BroadcastsOffline(b)]_vars

====
